---- MODULE Spec2Model ----
(***************************************************************************)
(* A state-machine model of the chat front-end: the knowledge-base store   *)
(* (URL groups with their URLs and files), the conversation controller     *)
(* (transcript, submission, suggestion prefetch, URL summaries) and the    *)
(* LLM gateway (request building, response and error normalisation).       *)
(*                                                                         *)
(* React state is modelled at the granularity of one committed render: an  *)
(* action is one event handler (or one continuation of an async handler)   *)
(* together with the effects the resulting render runs.  Requests that are *)
(* awaiting the service are kept in sendCalls, suggestionCalls and         *)
(* summaryCalls; the service's answer is the input of the action that      *)
(* resumes the handler.                                                    *)
(*                                                                         *)
(* Text is modelled as a sequence of one-character strings, so that        *)
(* toLowerCase, includes, startsWith, trim and replace are computed as the *)
(* code computes them.  URLs are opaque and are kept as atomic strings.    *)
(*                                                                         *)
(* The App component is the second part of the file                        *)
(* src/components/KnowledgeBaseManager.tsx (lines 252-640), behind the     *)
(* KnowledgeBaseManager component (lines 1-249).  In the comments "App     *)
(* line n" and "lines n-m" of a controller definition are lines of that    *)
(* file; "geminiService" is src/services/geminiService.ts and              *)
(* "MessageItem" is src/components/MessageItem.tsx.                        *)
(***************************************************************************)
EXTENDS Integers, Sequences, FiniteSets, TLC

(***************************************************************************)
(* String literals of the source, character by character.                  *)
(***************************************************************************)

\* the character U+0060 of the code fence in line 397 of KnowledgeBaseManager.tsx
Backtick == "U+0060"

\* S_Thinking: "Thinking..."  (App handleSendMessage, line 514)
S_Thinking ==
  <<"T","h","i","n","k","i","n","g",".",".",".">>

\* S_ErrorPrefix: "Error: "  (App handleSendMessage line 544, handleSummarizeUrls line 573)
S_ErrorPrefix ==
  <<"E","r","r","o","r",":"," ">>

\* S_ErrorMarker: "Error:"  (MessageItem line 57)
S_ErrorMarker ==
  <<"E","r","r","o","r",":">>

\* S_Offline: "Error: You appear to be offline. Please check your internet connection."  (App line 484)
S_Offline ==
  <<"E","r","r","o","r",":"," ","Y","o","u"," ","a","p","p","e","a","r"," ","t","o"," ","b","e",
    " ","o","f","f","l","i","n","e","."," ","P","l","e","a","s","e"," ","c","h","e","c","k"," ",
    "y","o","u","r"," ","i","n","t","e","r","n","e","t"," ","c","o","n","n","e","c","t","i","o",
    "n",".">>

\* S_ApiKeyNotConfigured: "Error: API Key is not configured."  (App line 495)
S_ApiKeyNotConfigured ==
  <<"E","r","r","o","r",":"," ","A","P","I"," ","K","e","y"," ","i","s"," ","n","o","t"," ","c",
    "o","n","f","i","g","u","r","e","d",".">>

\* S_WelcomeNoKey: "Error: Gemini API Key (process.env.API_KEY) is not configured. Please set this environment variable to use the application."  (App line 369)
S_WelcomeNoKey ==
  <<"E","r","r","o","r",":"," ","G","e","m","i","n","i"," ","A","P","I"," ","K","e","y"," ","(",
    "p","r","o","c","e","s","s",".","e","n","v",".","A","P","I","_","K","E","Y",")"," ","i","s",
    " ","n","o","t"," ","c","o","n","f","i","g","u","r","e","d","."," ","P","l","e","a","s","e",
    " ","s","e","t"," ","t","h","i","s"," ","e","n","v","i","r","o","n","m","e","n","t"," ","v",
    "a","r","i","a","b","l","e"," ","t","o"," ","u","s","e"," ","t","h","e"," ","a","p","p","l",
    "i","c","a","t","i","o","n",".">>

\* S_WelcomePre: "Welcome! You're currently browsing ""  (App line 370)
S_WelcomePre ==
  <<"W","e","l","c","o","m","e","!"," ","Y","o","u","'","r","e"," ","c","u","r","r","e","n","t",
    "l","y"," ","b","r","o","w","s","i","n","g"," ","\"">>

\* S_WelcomePost: "". Add URLs or upload files/folders to ask questions about them."  (App line 370)
S_WelcomePost ==
  <<"\"","."," ","A","d","d"," ","U","R","L","s"," ","o","r"," ","u","p","l","o","a","d"," ",
    "f","i","l","e","s","/","f","o","l","d","e","r","s"," ","t","o"," ","a","s","k"," ","q","u",
    "e","s","t","i","o","n","s"," ","a","b","o","u","t"," ","t","h","e","m",".">>

\* S_Unknown: "Unknown"  (App line 370)
S_Unknown ==
  <<"U","n","k","n","o","w","n">>

\* S_GeminiDocsOverview: "Gemini Docs Overview"  (App line 295)
S_GeminiDocsOverview ==
  <<"G","e","m","i","n","i"," ","D","o","c","s"," ","O","v","e","r","v","i","e","w">>

\* S_ModelCapabilities: "Model Capabilities"  (App line 296)
S_ModelCapabilities ==
  <<"M","o","d","e","l"," ","C","a","p","a","b","i","l","i","t","i","e","s">>

\* S_EmptyResponse: "I received an empty response."  (App line 534)
S_EmptyResponse ==
  <<"I"," ","r","e","c","e","i","v","e","d"," ","a","n"," ","e","m","p","t","y"," ","r","e","s",
    "p","o","n","s","e",".">>

\* S_UnexpectedError: "An unexpected error occurred."  (App line 539)
S_UnexpectedError ==
  <<"A","n"," ","u","n","e","x","p","e","c","t","e","d"," ","e","r","r","o","r"," ","o","c","c",
    "u","r","r","e","d",".">>

\* S_FailedSummary: "Failed to generate summary."  (App line 570)
S_FailedSummary ==
  <<"F","a","i","l","e","d"," ","t","o"," ","g","e","n","e","r","a","t","e"," ","s","u","m","m",
    "a","r","y",".">>

\* S_NoSummary: "No summary available."  (geminiService line 144)
S_NoSummary ==
  <<"N","o"," ","s","u","m","m","a","r","y"," ","a","v","a","i","l","a","b","l","e",".">>

\* S_StoppedDueTo: "Response stopped due to: "  (geminiService line 118)
S_StoppedDueTo ==
  <<"R","e","s","p","o","n","s","e"," ","s","t","o","p","p","e","d"," ","d","u","e"," ","t","o",
    ":"," ">>

\* S_KeyNotConfigured: "Gemini API Key not configured. Please check your environment settings."  (geminiService line 22)
S_KeyNotConfigured ==
  <<"G","e","m","i","n","i"," ","A","P","I"," ","K","e","y"," ","n","o","t"," ","c","o","n","f",
    "i","g","u","r","e","d","."," ","P","l","e","a","s","e"," ","c","h","e","c","k"," ","y","o",
    "u","r"," ","e","n","v","i","r","o","n","m","e","n","t"," ","s","e","t","t","i","n","g","s",
    ".">>

\* S_AuthFailed: "Authentication failed. Please verify your API Key."  (geminiService line 51)
S_AuthFailed ==
  <<"A","u","t","h","e","n","t","i","c","a","t","i","o","n"," ","f","a","i","l","e","d","."," ",
    "P","l","e","a","s","e"," ","v","e","r","i","f","y"," ","y","o","u","r"," ","A","P","I"," ",
    "K","e","y",".">>

\* S_UsageLimit: "Usage limit exceeded. Please try again later."  (geminiService line 54)
S_UsageLimit ==
  <<"U","s","a","g","e"," ","l","i","m","i","t"," ","e","x","c","e","e","d","e","d","."," ","P",
    "l","e","a","s","e"," ","t","r","y"," ","a","g","a","i","n"," ","l","a","t","e","r",".">>

\* S_Unavailable: "The AI service is temporarily unavailable. Please try again in a few moments."  (geminiService line 57)
S_Unavailable ==
  <<"T","h","e"," ","A","I"," ","s","e","r","v","i","c","e"," ","i","s"," ","t","e","m","p","o",
    "r","a","r","i","l","y"," ","u","n","a","v","a","i","l","a","b","l","e","."," ","P","l","e",
    "a","s","e"," ","t","r","y"," ","a","g","a","i","n"," ","i","n"," ","a"," ","f","e","w"," ",
    "m","o","m","e","n","t","s",".">>

\* S_NetworkFailed: "Network connection failed. Please check your internet connection."  (geminiService line 60)
S_NetworkFailed ==
  <<"N","e","t","w","o","r","k"," ","c","o","n","n","e","c","t","i","o","n"," ","f","a","i","l",
    "e","d","."," ","P","l","e","a","s","e"," ","c","h","e","c","k"," ","y","o","u","r"," ","i",
    "n","t","e","r","n","e","t"," ","c","o","n","n","e","c","t","i","o","n",".">>

\* S_SafetyBlocked: "The content was blocked due to safety policies. Please try a different prompt."  (geminiService line 63)
S_SafetyBlocked ==
  <<"T","h","e"," ","c","o","n","t","e","n","t"," ","w","a","s"," ","b","l","o","c","k","e","d",
    " ","d","u","e"," ","t","o"," ","s","a","f","e","t","y"," ","p","o","l","i","c","i","e","s",
    "."," ","P","l","e","a","s","e"," ","t","r","y"," ","a"," ","d","i","f","f","e","r","e","n",
    "t"," ","p","r","o","m","p","t",".">>

\* S_NoValidResponse: "The model could not generate a valid response for this request."  (geminiService line 66)
S_NoValidResponse ==
  <<"T","h","e"," ","m","o","d","e","l"," ","c","o","u","l","d"," ","n","o","t"," ","g","e","n",
    "e","r","a","t","e"," ","a"," ","v","a","l","i","d"," ","r","e","s","p","o","n","s","e"," ",
    "f","o","r"," ","t","h","i","s"," ","r","e","q","u","e","s","t",".">>

\* S_UnexpectedService: "An unexpected error occurred while communicating with the AI service."  (geminiService line 73)
S_UnexpectedService ==
  <<"A","n"," ","u","n","e","x","p","e","c","t","e","d"," ","e","r","r","o","r"," ","o","c","c",
    "u","r","r","e","d"," ","w","h","i","l","e"," ","c","o","m","m","u","n","i","c","a","t","i",
    "n","g"," ","w","i","t","h"," ","t","h","e"," ","A","I"," ","s","e","r","v","i","c","e",".">>

\* K_403: "403"  (geminiService line 50)
K_403 ==
  <<"4","0","3">>

\* K_apikey: "api key"  (geminiService line 50)
K_apikey ==
  <<"a","p","i"," ","k","e","y">>

\* K_429: "429"  (geminiService line 53)
K_429 ==
  <<"4","2","9">>

\* K_quota: "quota"  (geminiService line 53)
K_quota ==
  <<"q","u","o","t","a">>

\* K_503: "503"  (geminiService line 56)
K_503 ==
  <<"5","0","3">>

\* K_serviceunavailable: "service unavailable"  (geminiService line 56)
K_serviceunavailable ==
  <<"s","e","r","v","i","c","e"," ","u","n","a","v","a","i","l","a","b","l","e">>

\* K_overloaded: "overloaded"  (geminiService line 56)
K_overloaded ==
  <<"o","v","e","r","l","o","a","d","e","d">>

\* K_network: "network"  (geminiService line 59)
K_network ==
  <<"n","e","t","w","o","r","k">>

\* K_fetchfailed: "fetch failed"  (geminiService line 59)
K_fetchfailed ==
  <<"f","e","t","c","h"," ","f","a","i","l","e","d">>

\* K_failedtofetch: "failed to fetch"  (geminiService line 59)
K_failedtofetch ==
  <<"f","a","i","l","e","d"," ","t","o"," ","f","e","t","c","h">>

\* K_safety: "safety"  (geminiService line 62)
K_safety ==
  <<"s","a","f","e","t","y">>

\* K_blocked: "blocked"  (geminiService line 62)
K_blocked ==
  <<"b","l","o","c","k","e","d">>

\* K_candidate: "candidate"  (geminiService line 65)
K_candidate ==
  <<"c","a","n","d","i","d","a","t","e">>

\* S_GoogleGenAIError: "GoogleGenAIError:"  (geminiService line 70)
S_GoogleGenAIError ==
  <<"G","o","o","g","l","e","G","e","n","A","I","E","r","r","o","r",":">>

\* S_SummaryPrompt: "Please provide a concise and clear summary of the key information contained in the following URLs. Focus on the main topics and takeaways."  (geminiService line 142)
S_SummaryPrompt ==
  <<"P","l","e","a","s","e"," ","p","r","o","v","i","d","e"," ","a"," ","c","o","n","c","i","s",
    "e"," ","a","n","d"," ","c","l","e","a","r"," ","s","u","m","m","a","r","y"," ","o","f"," ",
    "t","h","e"," ","k","e","y"," ","i","n","f","o","r","m","a","t","i","o","n"," ","c","o","n",
    "t","a","i","n","e","d"," ","i","n"," ","t","h","e"," ","f","o","l","l","o","w","i","n","g",
    " ","U","R","L","s","."," ","F","o","c","u","s"," ","o","n"," ","t","h","e"," ","m","a","i",
    "n"," ","t","o","p","i","c","s"," ","a","n","d"," ","t","a","k","e","a","w","a","y","s",".">>

\* S_SuggestPromptPre: "Based on the content of the following documentation URLs, provide 3-4 concise and actionable questions a developer might ask to explore these documents. Return ONLY a JSON object with a key "suggestions".\n\nRelevant URLs:\n"  (geminiService line 157)
S_SuggestPromptPre ==
  <<"B","a","s","e","d"," ","o","n"," ","t","h","e"," ","c","o","n","t","e","n","t"," ","o","f",
    " ","t","h","e"," ","f","o","l","l","o","w","i","n","g"," ","d","o","c","u","m","e","n","t",
    "a","t","i","o","n"," ","U","R","L","s",","," ","p","r","o","v","i","d","e"," ","3","-","4",
    " ","c","o","n","c","i","s","e"," ","a","n","d"," ","a","c","t","i","o","n","a","b","l","e",
    " ","q","u","e","s","t","i","o","n","s"," ","a"," ","d","e","v","e","l","o","p","e","r"," ",
    "m","i","g","h","t"," ","a","s","k"," ","t","o"," ","e","x","p","l","o","r","e"," ","t","h",
    "e","s","e"," ","d","o","c","u","m","e","n","t","s","."," ","R","e","t","u","r","n"," ","O",
    "N","L","Y"," ","a"," ","J","S","O","N"," ","o","b","j","e","c","t"," ","w","i","t","h"," ",
    "a"," ","k","e","y"," ","\"","s","u","g","g","e","s","t","i","o","n","s","\"",".","\n","\n",
    "R","e","l","e","v","a","n","t"," ","U","R","L","s",":","\n">>

\* S_applicationJson: "application/json"  (geminiService line 170)
S_applicationJson ==
  <<"a","p","p","l","i","c","a","t","i","o","n","/","j","s","o","n">>

\* S_fence: "```"  (App line 397)
S_fence ==
  <<Backtick,Backtick,Backtick>>

\* K_suggestions: "suggestions"  (App line 403, geminiService line 152)
K_suggestions ==
  <<"s","u","g","g","e","s","t","i","o","n","s">>

\* TX_fenced: "```json\n{"suggestions": ["What is Gemini?"]}\n```"  (a fenced answer to the suggestion request)
TX_fenced ==
  <<Backtick,Backtick,Backtick,"j","s","o","n","\n","{","\"","s","u","g","g","e","s","t","i",
    "o","n","s","\"",":"," ","[","\"","W","h","a","t"," ","i","s"," ","G","e","m","i","n","i",
    "?","\"","]","}","\n",Backtick,Backtick,Backtick>>

\* TX_many: "{"suggestions": [1, "hello", "What is Gemini?", null, "hello", "hello", "What is Gemini?"], "n": true}"  (an answer with seven entries, five of them strings)
TX_many ==
  <<"{","\"","s","u","g","g","e","s","t","i","o","n","s","\"",":"," ","[","1",","," ","\"","h",
    "e","l","l","o","\"",","," ","\"","W","h","a","t"," ","i","s"," ","G","e","m","i","n","i",
    "?","\"",","," ","n","u","l","l",","," ","\"","h","e","l","l","o","\"",","," ","\"","h","e",
    "l","l","o","\"",","," ","\"","W","h","a","t"," ","i","s"," ","G","e","m","i","n","i","?",
    "\"","]",","," ","\"","n","\"",":"," ","t","r","u","e","}">>

\* TX_notArray: "{"suggestions": "hello"}"  (an answer whose suggestions member is no array)
TX_notArray ==
  <<"{","\"","s","u","g","g","e","s","t","i","o","n","s","\"",":"," ","\"","h","e","l","l","o",
    "\"","}">>

\* TX_noKey: "["hello"]"  (an answer without a suggestions member)
TX_noKey ==
  <<"[","\"","h","e","l","l","o","\"","]">>

\* TX_malformed: "{"suggestions": ["What"  (a truncated answer to the suggestion request)
TX_malformed ==
  <<"{","\"","s","u","g","g","e","s","t","i","o","n","s","\"",":"," ","[","\"","W","h","a","t">>

\* S_RelevantUrls: "\n\nRelevant URLs for context:\n"  (geminiService line 86)
S_RelevantUrls ==
  <<"\n","\n","R","e","l","e","v","a","n","t"," ","U","R","L","s"," ","f","o","r"," ","c","o",
    "n","t","e","x","t",":","\n">>

\* S_AddSome: "Add some URLs or Files to get topic suggestions."  (geminiService line 152)
S_AddSome ==
  <<"A","d","d"," ","s","o","m","e"," ","U","R","L","s"," ","o","r"," ","F","i","l","e","s"," ",
    "t","o"," ","g","e","t"," ","t","o","p","i","c"," ","s","u","g","g","e","s","t","i","o","n",
    "s",".">>

\* S_imagePrefix: "image/"  (App fileToPart line 329)
S_imagePrefix ==
  <<"i","m","a","g","e","/">>

\* S_audioPrefix: "audio/"  (App fileToPart line 331)
S_audioPrefix ==
  <<"a","u","d","i","o","/">>

\* S_videoPrefix: "video/"  (App fileToPart line 332)
S_videoPrefix ==
  <<"v","i","d","e","o","/">>

\* S_applicationPdf: "application/pdf"  (App fileToPart line 330)
S_applicationPdf ==
  <<"a","p","p","l","i","c","a","t","i","o","n","/","p","d","f">>

\* S_octetStream: "application/octet-stream"  (App fileToPart line 338)
S_octetStream ==
  <<"a","p","p","l","i","c","a","t","i","o","n","/","o","c","t","e","t","-","s","t","r","e","a",
    "m">>

\* S_FileHeader: "File: "  (App fileToPart line 346)
S_FileHeader ==
  <<"F","i","l","e",":"," ">>

\* S_ContentHeader: "\nContent:\n"  (App fileToPart line 346)
S_ContentHeader ==
  <<"\n","C","o","n","t","e","n","t",":","\n">>

\* S_FileTrailer: "\n---\n"  (App fileToPart line 346)
S_FileTrailer ==
  <<"\n","-","-","-","\n">>

\* R_STOP: "STOP"  (geminiService line 117)
R_STOP ==
  <<"S","T","O","P">>

\* R_SAFETY: "SAFETY"  (a finishReason of the service)
R_SAFETY ==
  <<"S","A","F","E","T","Y">>

\* R_MAX_TOKENS: "MAX_TOKENS"  (a finishReason of the service)
R_MAX_TOKENS ==
  <<"M","A","X","_","T","O","K","E","N","S">>

\* Q_hello: "hello"  (a query)
Q_hello ==
  <<"h","e","l","l","o">>

\* Q_blank: "  "  (a blank query)
Q_blank ==
  <<" "," ">>

\* Q_suggested: "What is Gemini?"  (a suggested query returned by the service)
Q_suggested ==
  <<"W","h","a","t"," ","i","s"," ","G","e","m","i","n","i","?">>

\* T_answer: "Gemini is a model."  (a non-empty answer of the service)
T_answer ==
  <<"G","e","m","i","n","i"," ","i","s"," ","a"," ","m","o","d","e","l",".">>

\* T_summary: "A summary."  (a non-empty summary of the service)
T_summary ==
  <<"A"," ","s","u","m","m","a","r","y",".">>

\* E_forbidden: "[403 Forbidden] denied"  (an error message of the service)
E_forbidden ==
  <<"[","4","0","3"," ","F","o","r","b","i","d","d","e","n","]"," ","d","e","n","i","e","d">>

\* E_quota: "Quota exceeded"  (an error message of the service)
E_quota ==
  <<"Q","u","o","t","a"," ","e","x","c","e","e","d","e","d">>

\* E_prefixed: "GoogleGenAIError: [500] boom"  (an error message of the service)
E_prefixed ==
  <<"G","o","o","g","l","e","G","e","n","A","I","E","r","r","o","r",":"," ","[","5","0","0","]",
    " ","b","o","o","m">>

\* ST_SUCCESS: "SUCCESS"  (MessageItem line 98)
ST_SUCCESS ==
  <<"S","U","C","C","E","S","S">>

\* ST_OK: "OK"  (MessageItem line 98)
ST_OK ==
  <<"O","K">>

\* ST_RetrievalSuccess: "URL_RETRIEVAL_STATUS_SUCCESS"  (a urlRetrievalStatus of the service)
ST_RetrievalSuccess ==
  <<"U","R","L","_","R","E","T","R","I","E","V","A","L","_","S","T","A","T","U","S","_","S","U",
    "C","C","E","S","S">>

\* ST_RetrievalError: "URL_RETRIEVAL_STATUS_ERROR"  (a urlRetrievalStatus of the service)
ST_RetrievalError ==
  <<"U","R","L","_","R","E","T","R","I","E","V","A","L","_","S","T","A","T","U","S","_","E","R",
    "R","O","R">>

\* M_imagePng: "image/png"  (a MIME type)
M_imagePng ==
  <<"i","m","a","g","e","/","p","n","g">>

\* M_textPlain: "text/plain"  (a MIME type)
M_textPlain ==
  <<"t","e","x","t","/","p","l","a","i","n">>

(***************************************************************************)
(* String operations of the JavaScript runtime used by the source.         *)
(***************************************************************************)

\* the lower-case letter of each upper-case letter
UpperToLower ==
  [A |-> "a", B |-> "b", C |-> "c", D |-> "d", E |-> "e", F |-> "f", G |-> "g", H |-> "h",
   I |-> "i", J |-> "j", K |-> "k", L |-> "l", M |-> "m", N |-> "n", O |-> "o", P |-> "p",
   Q |-> "q", R |-> "r", S |-> "s", T |-> "t", U |-> "u", V |-> "v", W |-> "w", X |-> "x",
   Y |-> "y", Z |-> "z"]

toLowerChar(c) == IF c \in DOMAIN UpperToLower THEN UpperToLower[c] ELSE c

\* String.prototype.toLowerCase
toLowerCase(s) == [i \in 1..Len(s) |-> toLowerChar(s[i])]

\* String.prototype.includes
includes(s, k) == \E i \in 0..(Len(s) - Len(k)) : SubSeq(s, i + 1, i + Len(k)) = k

\* String.prototype.startsWith
startsWith(s, p) == Len(s) >= Len(p) /\ SubSeq(s, 1, Len(p)) = p

IsSpace(c) == c \in {" ", "\n", "\t"}

SetMin(S) == CHOOSE x \in S : \A y \in S : x <= y

SetMax(S) == CHOOSE x \in S : \A y \in S : x >= y

\* String.prototype.trim
trim(s) ==
  LET idx == {i \in 1..Len(s) : ~IsSpace(s[i])}
  IN  IF idx = {} THEN <<>> ELSE SubSeq(s, SetMin(idx), SetMax(idx))

\* Array.prototype.includes
arrayIncludes(arr, x) == \E i \in 1..Len(arr) : arr[i] = x

\* Array.prototype.slice(0, n)
slice0(arr, n) == SubSeq(arr, 1, IF Len(arr) < n THEN Len(arr) ELSE n)

\* { ...m, f: v }
With(m, f, v) == [k \in DOMAIN m \cup {f} |-> IF k = f THEN v ELSE m[k]]

\* msg.replace(/\[.*?\]\s*/, ''): the leftmost "[" that is closed by a "]" on the same line is
\* removed up to its first "]", together with the white space that follows.
replaceBracket(s) ==
  LET opens == {i \in 1..Len(s) :
                  /\ s[i] = "["
                  /\ \E j \in (i + 1)..Len(s) :
                        s[j] = "]" /\ \A k \in (i + 1)..(j - 1) : s[k] # "\n"}
  IN  IF opens = {} THEN s
      ELSE LET i == SetMin(opens)
               j == SetMin({j \in (i + 1)..Len(s) : s[j] = "]"})
               rest == {k \in (j + 1)..Len(s) : ~IsSpace(s[k])}
               e == IF rest = {} THEN Len(s) + 1 ELSE SetMin(rest)
           IN  SubSeq(s, 1, i - 1) \o SubSeq(s, e, Len(s))

\* msg.replace(/^GoogleGenAIError:\s*/, '')
replacePrefix(s) ==
  IF startsWith(s, S_GoogleGenAIError)
  THEN LET rest == {k \in (Len(S_GoogleGenAIError) + 1)..Len(s) : ~IsSpace(s[k])}
           e == IF rest = {} THEN Len(s) + 1 ELSE SetMin(rest)
       IN  SubSeq(s, e, Len(s))
  ELSE s

(***************************************************************************)
(* JSON texts: JSON.stringify and JSON.parse on objects, arrays, strings,  *)
(* numbers and the literals, and the code fence of line 397.               *)
(***************************************************************************)

JsonString(value) == [type |-> "string", value |-> value]

JsonArray(items) == [type |-> "array", items |-> items]

\* members: the key/value pairs in the order of the text
JsonObject(members) == [type |-> "object", members |-> members]

\* { suggestions: items }
JsonSuggestions(items) ==
  JsonObject(<<[key |-> K_suggestions, value |-> JsonArray(items)]>>)

\* the concatenation of the sequences of a sequence
RECURSIVE concat(_)
concat(seqs) ==
  IF seqs = <<>> THEN <<>>
  ELSE IF Len(seqs) = 1 THEN seqs[1]
  ELSE LET h == Len(seqs) \div 2
       IN  concat(SubSeq(seqs, 1, h)) \o concat(SubSeq(seqs, h + 1, Len(seqs)))

\* the characters of a string as JSON.stringify writes them between the quotes
quoteChars(s) ==
  concat([k \in 1..Len(s) |->
            IF s[k] \in {"\"", "\\"} THEN <<"\\", s[k]>>
            ELSE IF s[k] = "\n" THEN <<"\\", "n">>
            ELSE IF s[k] = "\t" THEN <<"\\", "t">>
            ELSE <<s[k]>>])

\* JSON.stringify(value), for a value built of objects, arrays and strings
RECURSIVE stringify(_)
RECURSIVE stringifyItems(_)
RECURSIVE stringifyMembers(_)
stringify(v) ==
  IF v.type = "string" THEN <<"\"">> \o quoteChars(v.value) \o <<"\"">>
  ELSE IF v.type = "array" THEN <<"[">> \o stringifyItems(v.items) \o <<"]">>
  ELSE IF v.type = "object" THEN <<"{">> \o stringifyMembers(v.members) \o <<"}">>
  ELSE IF v.type = "number" THEN v.value
  ELSE IF v.type = "true" THEN <<"t","r","u","e">>
  ELSE IF v.type = "false" THEN <<"f","a","l","s","e">>
  ELSE <<"n","u","l","l">>

stringifyItems(items) ==
  IF items = <<>> THEN <<>>
  ELSE stringify(Head(items))
         \o (IF Len(items) > 1 THEN <<",">> \o stringifyItems(Tail(items)) ELSE <<>>)

stringifyMembers(members) ==
  IF members = <<>> THEN <<>>
  ELSE <<"\"">> \o quoteChars(Head(members).key) \o <<"\"", ":">>
         \o stringify(Head(members).value)
         \o (IF Len(members) > 1 THEN <<",">> \o stringifyMembers(Tail(members)) ELSE <<>>)

\* JSON.parse throws a SyntaxError
SyntaxError == [ok |-> FALSE]

\* a value was read; next is the position behind it
Parsed(value, next) == [ok |-> TRUE, value |-> value, next |-> next]

\* the first position from i on that holds no white space
skipSpace(s, i) ==
  LET rest == {j \in i..Len(s) : ~IsSpace(s[j])}
  IN  IF rest = {} THEN Len(s) + 1 ELSE SetMin(rest)

\* the string whose characters start at i, read up to its closing quote.  A character is
\* escaped when an odd number of backslashes stands directly before it.
parseString(s, i) ==
  LET backslashesBefore(j) ==
        LET other == {k \in i..(j - 1) : s[k] # "\\"}
        IN  j - 1 - (IF other = {} THEN i - 1 ELSE SetMax(other))
      isEscaped(j) == backslashesBefore(j) % 2 = 1
      unescape(c) == IF c = "n" THEN "\n" ELSE IF c = "t" THEN "\t" ELSE c
      closing == {j \in i..Len(s) : s[j] = "\"" /\ ~isEscaped(j)}
  IN  IF closing = {} THEN SyntaxError
      ELSE LET e == SetMin(closing)
               inside == [k \in 1..(e - i) |-> i + k - 1]
               kept == SelectSeq(inside, LAMBDA j : isEscaped(j) \/ s[j] # "\\")
           IN  IF \A j \in i..(e - 1) :
                    IF isEscaped(j) THEN s[j] \in {"\"", "\\", "/", "n", "t"}
                    ELSE s[j] \notin {"\n", "\t"}
               THEN Parsed(JsonString([k \in 1..Len(kept) |->
                             IF isEscaped(kept[k]) THEN unescape(s[kept[k]])
                             ELSE s[kept[k]]]), e + 1)
               ELSE SyntaxError

\* the value that starts at the first position from i0 on that holds no white space
RECURSIVE parseValue(_, _)
RECURSIVE parseElements(_, _, _)
RECURSIVE parseMembers(_, _, _)
parseValue(s, i0) ==
  LET i == skipSpace(s, i0)
      wordAt(word) == i + Len(word) - 1 <= Len(s) /\ SubSeq(s, i, i + Len(word) - 1) = word
      NumberChars == {"0","1","2","3","4","5","6","7","8","9","-","+",".","e","E"}
  IN  IF i > Len(s) THEN SyntaxError
      ELSE IF s[i] = "\"" THEN parseString(s, i + 1)
      ELSE IF s[i] = "["
      THEN IF skipSpace(s, i + 1) <= Len(s) /\ s[skipSpace(s, i + 1)] = "]"
           THEN Parsed(JsonArray(<<>>), skipSpace(s, i + 1) + 1)
           ELSE parseElements(s, i + 1, <<>>)
      ELSE IF s[i] = "{"
      THEN IF skipSpace(s, i + 1) <= Len(s) /\ s[skipSpace(s, i + 1)] = "}"
           THEN Parsed(JsonObject(<<>>), skipSpace(s, i + 1) + 1)
           ELSE parseMembers(s, i + 1, <<>>)
      ELSE IF wordAt(<<"t","r","u","e">>) THEN Parsed([type |-> "true"], i + 4)
      ELSE IF wordAt(<<"f","a","l","s","e">>) THEN Parsed([type |-> "false"], i + 5)
      ELSE IF wordAt(<<"n","u","l","l">>) THEN Parsed([type |-> "null"], i + 4)
      ELSE IF s[i] \in NumberChars \ {"+", ".", "e", "E"}
      THEN LET stop == {j \in i..Len(s) : s[j] \notin NumberChars}
               e == IF stop = {} THEN Len(s) + 1 ELSE SetMin(stop)
           IN  IF \E j \in i..(e - 1) : s[j] \notin {"-", "+", ".", "e", "E"}
               THEN Parsed([type |-> "number", value |-> SubSeq(s, i, e - 1)], e)
               ELSE SyntaxError
      ELSE SyntaxError

\* the elements of an array from position i on, behind the elements acc
parseElements(s, i, acc) ==
  LET element == parseValue(s, i)
  IN  IF ~element.ok THEN SyntaxError
      ELSE LET j == skipSpace(s, element.next)
           IN  IF j > Len(s) THEN SyntaxError
               ELSE IF s[j] = "]" THEN Parsed(JsonArray(Append(acc, element.value)), j + 1)
               ELSE IF s[j] = "," THEN parseElements(s, j + 1, Append(acc, element.value))
               ELSE SyntaxError

\* the members of an object from position i on, behind the members acc
parseMembers(s, i, acc) ==
  LET k == skipSpace(s, i)
      key == IF k <= Len(s) /\ s[k] = "\"" THEN parseString(s, k + 1) ELSE SyntaxError
  IN  IF ~key.ok THEN SyntaxError
      ELSE LET c == skipSpace(s, key.next)
           IN  IF c > Len(s) \/ s[c] # ":" THEN SyntaxError
               ELSE LET member == parseValue(s, c + 1)
                    IN  IF ~member.ok THEN SyntaxError
                        ELSE LET j == skipSpace(s, member.next)
                                 members == Append(acc, [key |-> key.value.value,
                                                         value |-> member.value])
                             IN  IF j > Len(s) THEN SyntaxError
                                 ELSE IF s[j] = "}" THEN Parsed(JsonObject(members), j + 1)
                                 ELSE IF s[j] = "," THEN parseMembers(s, j + 1, members)
                                 ELSE SyntaxError

\* JSON.parse(text): one value, with nothing but white space around it
JSONparse(text) ==
  LET r == parseValue(text, 1)
  IN  IF r.ok /\ skipSpace(text, r.next) > Len(text) THEN r ELSE SyntaxError

\* lines 397-401: jsonStr.match(/^```(\w*)?\s*\n?(.*?)\n?\s*```$/s); the text between the
\* fences, trimmed, when the text is fenced and that text is not empty
stripFence(jsonStr) ==
  IF Len(jsonStr) >= 2 * Len(S_fence)
       /\ startsWith(jsonStr, S_fence)
       /\ SubSeq(jsonStr, Len(jsonStr) - Len(S_fence) + 1, Len(jsonStr)) = S_fence
  THEN LET inner == SubSeq(jsonStr, Len(S_fence) + 1, Len(jsonStr) - Len(S_fence))
           IsWordChar(c) ==
             \/ c \in DOMAIN UpperToLower
             \/ \E u \in DOMAIN UpperToLower : UpperToLower[u] = c
             \/ c \in {"0","1","2","3","4","5","6","7","8","9","_"}
           notWord == {j \in 1..Len(inner) : ~IsWordChar(inner[j])}
           afterTag == IF notWord = {} THEN Len(inner) + 1 ELSE SetMin(notWord)
           group2 == trim(SubSeq(inner, afterTag, Len(inner)))
       IN  IF group2 # <<>> THEN group2 ELSE jsonStr
  ELSE jsonStr

(***************************************************************************)
(* Program constants and seed data.                                        *)
(***************************************************************************)

MAX_URLS == 20

MAX_FILES == 50

GEMINI_DOCS_URLS ==
  << "https://ai.google.dev/gemini-api/docs",
     "https://ai.google.dev/gemini-api/docs/quickstart",
     "https://ai.google.dev/gemini-api/docs/api-key",
     "https://ai.google.dev/gemini-api/docs/libraries",
     "https://ai.google.dev/gemini-api/docs/models",
     "https://ai.google.dev/gemini-api/docs/pricing",
     "https://ai.google.dev/gemini-api/docs/rate-limits",
     "https://ai.google.dev/gemini-api/docs/billing",
     "https://ai.google.dev/gemini-api/docs/changelog" >>

MODEL_CAPABILITIES_URLS ==
  << "https://ai.google.dev/gemini-api/docs/text-generation",
     "https://ai.google.dev/gemini-api/docs/image-generation",
     "https://ai.google.dev/gemini-api/docs/video",
     "https://ai.google.dev/gemini-api/docs/speech-generation",
     "https://ai.google.dev/gemini-api/docs/music-generation",
     "https://ai.google.dev/gemini-api/docs/long-context",
     "https://ai.google.dev/gemini-api/docs/structured-output",
     "https://ai.google.dev/gemini-api/docs/thinking",
     "https://ai.google.dev/gemini-api/docs/function-calling",
     "https://ai.google.dev/gemini-api/docs/document-processing",
     "https://ai.google.dev/gemini-api/docs/image-understanding",
     "https://ai.google.dev/gemini-api/docs/video-understanding",
     "https://ai.google.dev/gemini-api/docs/audio",
     "https://ai.google.dev/gemini-api/docs/code-execution",
     "https://ai.google.dev/gemini-api/docs/grounding" >>

INITIAL_URL_GROUPS ==
  << [id |-> "gemini-overview", name |-> S_GeminiDocsOverview,
      urls |-> GEMINI_DOCS_URLS, files |-> <<>>],
     [id |-> "model-capabilities", name |-> S_ModelCapabilities,
      urls |-> MODEL_CAPABILITIES_URLS, files |-> <<>>] >>

\* MessageSender
USER == "user"

MODEL == "model"

SYSTEM == "system"

(***************************************************************************)
(* State.                                                                  *)
(***************************************************************************)

VARIABLES
  API_KEY,                  \* process.env.API_KEY is set (fixed for the session)
  now,                      \* the last value Date.now() returned
  urlGroups,                \* App state
  activeUrlGroupId,         \* App state
  chatMessages,             \* App state: the transcript
  isLoading,                \* App state
  isFetchingSuggestions,    \* App state
  initialQuerySuggestions,  \* App state
  error,                    \* KnowledgeBaseManager state: the notice under the inputs
  sendCalls,                \* handleSendMessage invocations suspended at an await
  suggestionCalls,          \* fetchAndSetInitialSuggestions invocations awaiting the service
  summaryCalls,             \* handleSummarizeUrls invocations awaiting the service
  gatewayCall               \* a call of a gateway function under study, made by any caller

vars ==
  << API_KEY, now, urlGroups, activeUrlGroupId, chatMessages, isLoading,
     isFetchingSuggestions, initialQuerySuggestions, error, sendCalls, suggestionCalls,
     summaryCalls, gatewayCall >>

\* what no handler of the application writes
envVars == << API_KEY, gatewayCall >>

storeVars == << urlGroups, activeUrlGroupId >>

asyncVars == << sendCalls, suggestionCalls, summaryCalls >>

(***************************************************************************)
(* Bounds of the model and sample inputs.                                  *)
(***************************************************************************)

\* accepted submissions per behaviour (each reads a later Date.now())
MaxNow == 1

\* transcript length up to which a submission is explored
MaxMessages == 4

\* fetchAndSetInitialSuggestions invocations awaiting the service at once
MaxSuggestionCalls == 2

\* handleSummarizeUrls invocations awaiting the service at once
MaxSummaryCalls == 2

\* files of the large import batches of SpecKB exceed MAX_FILES by this many
FileOverflow == 1

FreshUrl == "https://example.com/a"

AbsentUrl == "https://example.com/absent"

\* name: "f" followed by the decimal digits of i
Digits == <<"0","1","2","3","4","5","6","7","8","9">>

RECURSIVE decimal(_)
decimal(i) == IF i < 10 THEN <<Digits[i + 1]>> ELSE decimal(i \div 10) \o <<Digits[(i % 10) + 1]>>

\* a File: name, MIME type, size in bytes, body
File(i, type) == [name |-> <<"f">> \o decimal(i), type |-> type, size |-> 1, body |-> <<"x">>]

(***************************************************************************)
(* Knowledge base store: the App handlers (pure part: prevGroups ->        *)
(* groups) and the derived values of a render.                             *)
(***************************************************************************)

hasGroup(groups, id) == \E i \in 1..Len(groups) : groups[i].id = id

\* urlGroups.find(group => group.id === id), for an id that is found
findGroup(groups, id) == groups[SetMin({i \in 1..Len(groups) : groups[i].id = id})]

urlsForChat(groups, id) == IF hasGroup(groups, id) THEN findGroup(groups, id).urls ELSE <<>>

filesForChat(groups, id) == IF hasGroup(groups, id) THEN findGroup(groups, id).files ELSE <<>>

currentUrlsForChat == urlsForChat(urlGroups, activeUrlGroupId)

currentFilesForChat == filesForChat(urlGroups, activeUrlGroupId)

\* addUrlToGroup without the capacity test
addUrlToGroup_NoCap(group, url) ==
  IF ~arrayIncludes(group.urls, url)
  THEN [group EXCEPT !.urls = Append(@, url)]
  ELSE group

\* addUrlToGroup without the membership test
addUrlToGroup_NoDupCheck(group, url) ==
  IF Len(group.urls) < MAX_URLS
  THEN [group EXCEPT !.urls = Append(@, url)]
  ELSE group

addUrlToGroup(group, url) ==
  IF Len(group.urls) < MAX_URLS /\ ~arrayIncludes(group.urls, url)
  THEN [group EXCEPT !.urls = Append(@, url)]
  ELSE group

handleAddUrl(prevGroups, url) ==
  [i \in 1..Len(prevGroups) |->
     IF prevGroups[i].id = activeUrlGroupId THEN addUrlToGroup(prevGroups[i], url)
     ELSE prevGroups[i]]

\* handleRemoveUrl that removes the active group instead of the URL
handleRemoveUrl_DropGroup(prevGroups, urlToRemove) ==
  SelectSeq(prevGroups, LAMBDA group : group.id # activeUrlGroupId)

handleRemoveUrl(prevGroups, urlToRemove) ==
  [i \in 1..Len(prevGroups) |->
     IF prevGroups[i].id = activeUrlGroupId
     THEN [prevGroups[i] EXCEPT !.urls = SelectSeq(@, LAMBDA url : url # urlToRemove)]
     ELSE prevGroups[i]]

\* addFilesToGroup that keeps the newest MAX_FILES files
addFilesToGroup_KeepNewest(group, newFiles) ==
  LET combinedFiles == group.files \o newFiles
  IN  IF Len(combinedFiles) > MAX_FILES
      THEN [group EXCEPT !.files = SubSeq(combinedFiles, Len(combinedFiles) - MAX_FILES + 1,
                                          Len(combinedFiles))]
      ELSE [group EXCEPT !.files = combinedFiles]

addFilesToGroup(group, newFiles) ==
  LET combinedFiles == group.files \o newFiles
  IN  IF Len(combinedFiles) > MAX_FILES
      THEN [group EXCEPT !.files = slice0(combinedFiles, MAX_FILES)]
      ELSE [group EXCEPT !.files = combinedFiles]

\* handleAddFiles without the test of the group id
handleAddFiles_AllGroups(prevGroups, newFiles) ==
  [i \in 1..Len(prevGroups) |-> addFilesToGroup(prevGroups[i], newFiles)]

handleAddFiles(prevGroups, newFiles) ==
  [i \in 1..Len(prevGroups) |->
     IF prevGroups[i].id = activeUrlGroupId THEN addFilesToGroup(prevGroups[i], newFiles)
     ELSE prevGroups[i]]

handleRemoveFile(prevGroups, fileName) ==
  [i \in 1..Len(prevGroups) |->
     IF prevGroups[i].id = activeUrlGroupId
     THEN [prevGroups[i] EXCEPT !.files = SelectSeq(@, LAMBDA f : f.name # fileName)]
     ELSE prevGroups[i]]

(***************************************************************************)
(* LLM gateway (services/geminiService.ts).                                *)
(***************************************************************************)

\* new Error(message)
Error(message) == [isError |-> TRUE, message |-> message]

\* a thrown value that is not an Error (it has no message)
NotAnError == [isError |-> FALSE, message |-> <<>>]

MODEL_NAME == "gemini-2.5-flash"

safetySettings ==
  << [category |-> "HARM_CATEGORY_HARASSMENT", threshold |-> "BLOCK_MEDIUM_AND_ABOVE"],
     [category |-> "HARM_CATEGORY_HATE_SPEECH", threshold |-> "BLOCK_MEDIUM_AND_ABOVE"],
     [category |-> "HARM_CATEGORY_SEXUALLY_EXPLICIT", threshold |-> "BLOCK_MEDIUM_AND_ABOVE"],
     [category |-> "HARM_CATEGORY_DANGEROUS_CONTENT", threshold |-> "BLOCK_MEDIUM_AND_ABOVE"] >>

formatGeminiError(err) ==
  IF err.isError
  THEN LET msg == err.message
           lowerMsg == toLowerCase(msg)
       IN  IF includes(lowerMsg, K_403) \/ includes(lowerMsg, K_apikey)
             THEN S_AuthFailed
           ELSE IF includes(lowerMsg, K_429) \/ includes(lowerMsg, K_quota)
             THEN S_UsageLimit
           ELSE IF \/ includes(lowerMsg, K_503)
                   \/ includes(lowerMsg, K_serviceunavailable)
                   \/ includes(lowerMsg, K_overloaded)
             THEN S_Unavailable
           ELSE IF \/ includes(lowerMsg, K_network)
                   \/ includes(lowerMsg, K_fetchfailed)
                   \/ includes(lowerMsg, K_failedtofetch)
             THEN S_NetworkFailed
           ELSE IF includes(lowerMsg, K_safety) \/ includes(lowerMsg, K_blocked)
             THEN S_SafetyBlocked
           ELSE IF includes(lowerMsg, K_candidate)
             THEN S_NoValidResponse
           ELSE replacePrefix(replaceBracket(msg))
  ELSE S_UnexpectedService

\* getAiInstance: the error it throws when the key is missing
getAiInstanceError == Error(S_KeyNotConfigured)

\* the request of generateContentWithContext with the URL context tool attached always
generateRequest_AlwaysTool(prompt, urls, fileParts) ==
  LET fullPrompt == IF Len(urls) > 0 THEN <<prompt, S_RelevantUrls, urls>> ELSE <<prompt>>
      parts == fileParts \o <<[text |-> fullPrompt]>>
      contents == <<[role |-> "user", parts |-> parts]>>
  IN  [model |-> MODEL_NAME, contents |-> contents,
       config |-> [tools |-> <<"urlContext">>, safetySettings |-> safetySettings]]

\* generateContentWithContext, lines 83-113: the request sent to the service.  The prompt
\* text is kept as its template pieces, the URLs being opaque.
generateRequest(prompt, urls, fileParts) ==
  LET fullPrompt == IF Len(urls) > 0 THEN <<prompt, S_RelevantUrls, urls>> ELSE <<prompt>>
      parts == fileParts \o <<[text |-> fullPrompt]>>
      contents == <<[role |-> "user", parts |-> parts]>>
  IN  IF Len(urls) > 0
      THEN [model |-> MODEL_NAME, contents |-> contents,
            config |-> [tools |-> <<"urlContext">>, safetySettings |-> safetySettings]]
      ELSE [model |-> MODEL_NAME, contents |-> contents,
            config |-> [safetySettings |-> safetySettings]]

\* outcomes of an async gateway function
Returned(value) == [ok |-> TRUE, value |-> value]

Thrown(err) == [ok |-> FALSE, error |-> err]

\* generateContentWithContext, lines 115-128, with the catch of lines 130-132: the service
\* answered with response
generateContentResolved(response) ==
  LET text == response.text
      candidates == response.candidates
  IN  IF text = <<>> /\ Len(candidates) > 0 /\ candidates[1].finishReason # R_STOP
      THEN Thrown(Error(formatGeminiError(
                    Error(S_StoppedDueTo \o candidates[1].finishReason))))
      ELSE IF Len(candidates) > 0 /\ "urlMetadata" \in DOMAIN candidates[1]
           THEN Returned([text |-> text, urlContextMetadata |-> candidates[1].urlMetadata])
           ELSE Returned([text |-> text])

\* generateContentWithContext, lines 130-132: the service threw err
generateContentRejected(err) == Thrown(Error(formatGeminiError(err)))

\* getSummaryForUrls, lines 141-147, given the outcome of generateContentWithContext
getSummaryForUrlsSettled(outcome) ==
  IF outcome.ok
  THEN Returned(IF outcome.value.text = <<>> THEN S_NoSummary ELSE outcome.value.text)
  ELSE Thrown(Error(formatGeminiError(outcome.error)))

\* getInitialSuggestions, lines 150-153: the text returned without a call to the service
cannedSuggestions == stringify(JsonSuggestions(<<JsonString(S_AddSome)>>))

\* service answers of the sample
Candidate(reason) == [finishReason |-> reason]

SuccessMetadata ==
  <<[retrievedUrl |-> GEMINI_DOCS_URLS[1], urlRetrievalStatus |-> ST_RetrievalSuccess],
    [retrievedUrl |-> GEMINI_DOCS_URLS[2], urlRetrievalStatus |-> ST_RetrievalError]>>

GenerateResponses ==
  { [text |-> T_answer,
     candidates |-> <<With(Candidate(R_STOP), "urlMetadata", SuccessMetadata)>>],
    [text |-> <<>>, candidates |-> <<Candidate(R_STOP)>>],
    [text |-> <<>>, candidates |-> <<Candidate(R_SAFETY)>>],
    [text |-> <<>>, candidates |-> <<Candidate(R_MAX_TOKENS)>>] }

ServiceErrors == {Error(E_forbidden), Error(E_prefixed), NotAnError}

SummaryResponses ==
  { [text |-> T_summary, candidates |-> <<Candidate(R_STOP)>>],
    [text |-> <<>>, candidates |-> <<Candidate(R_STOP)>>] }

SummaryErrors == {Error(E_quota)}

\* the outcomes of generateContentWithContext, tabulated over the answers and the errors of
\* the samples
resolvedOf ==
  [response \in GenerateResponses \cup SummaryResponses |-> generateContentResolved(response)]

rejectedOf == [err \in ServiceErrors \cup SummaryErrors |-> generateContentRejected(err)]


\* getInitialSuggestions, lines 155-172: the request sent to the service
suggestionRequest(urls) ==
  [model |-> MODEL_NAME,
   contents |-> <<[role |-> "user", parts |-> <<[text |-> <<S_SuggestPromptPre, urls>>]>>]>>,
   config |-> [safetySettings |-> safetySettings, responseMimeType |-> S_applicationJson]]

\* getInitialSuggestions, lines 174-181, given what the service did
getInitialSuggestionsResolved(text) == Returned([text |-> text])

getInitialSuggestionsRejected(err) == Thrown(Error(formatGeminiError(err)))

\* no gateway call is under study
NoCall == [stage |-> "none"]

\* a gateway function that has sent request and awaits the service
Awaiting(op, urls, request) ==
  [stage |-> "awaiting", op |-> op, urls |-> urls, request |-> request]

\* a gateway function that has settled with outcome, having sent the requests
Settled(op, urls, requests, outcome) ==
  [stage |-> "settled", op |-> op, urls |-> urls, requests |-> requests,
   outcome |-> outcome]

\* generateContentWithContext(prompt, urls, fileParts), lines 81-113: up to the await
generateContentWithContext(prompt, urls, fileParts) ==
  IF ~API_KEY
  THEN Settled("generateContentWithContext", urls, <<>>, Thrown(getAiInstanceError))
  ELSE Awaiting("generateContentWithContext", urls, generateRequest(prompt, urls, fileParts))

\* getSummaryForUrls(urls), lines 141-147: up to the await in generateContentWithContext;
\* what that function throws before the await is caught in line 145
getSummaryForUrls(urls) ==
  IF ~API_KEY
  THEN Settled("getSummaryForUrls", urls, <<>>,
               getSummaryForUrlsSettled(Thrown(getAiInstanceError)))
  ELSE Awaiting("getSummaryForUrls", urls, generateRequest(S_SummaryPrompt, urls, <<>>))

\* getInitialSuggestions with the key demanded before the URL list is looked at
getInitialSuggestions_KeyFirst(urls) ==
  IF ~API_KEY
  THEN Settled("getInitialSuggestions", urls, <<>>, Thrown(getAiInstanceError))
  ELSE IF Len(urls) = 0
  THEN Settled("getInitialSuggestions", urls, <<>>, Returned([text |-> cannedSuggestions]))
  ELSE Awaiting("getInitialSuggestions", urls, suggestionRequest(urls))

\* getInitialSuggestions(urls), lines 151-172: up to the await
getInitialSuggestions(urls) ==
  IF Len(urls) = 0
  THEN Settled("getInitialSuggestions", urls, <<>>, Returned([text |-> cannedSuggestions]))
  ELSE IF ~API_KEY
  THEN Settled("getInitialSuggestions", urls, <<>>, Thrown(getAiInstanceError))
  ELSE Awaiting("getInitialSuggestions", urls, suggestionRequest(urls))

\* the awaiting function resumes with the answer response of the service
gatewayResolved(call, response) ==
  Settled(call.op, call.urls, <<call.request>>,
          IF call.op = "generateContentWithContext" THEN generateContentResolved(response)
          ELSE IF call.op = "getSummaryForUrls"
          THEN getSummaryForUrlsSettled(generateContentResolved(response))
          ELSE getInitialSuggestionsResolved(response.text))

\* the awaiting function resumes with err thrown by the service
gatewayRejected(call, err) ==
  Settled(call.op, call.urls, <<call.request>>,
          IF call.op = "generateContentWithContext" THEN generateContentRejected(err)
          ELSE IF call.op = "getSummaryForUrls"
          THEN getSummaryForUrlsSettled(generateContentRejected(err))
          ELSE getInitialSuggestionsRejected(err))
(***************************************************************************)
(* Conversation controller (App): effects of a render.                     *)
(***************************************************************************)

\* lines 366-370
welcomeMessageText(groups, id) ==
  IF ~API_KEY THEN S_WelcomeNoKey
  ELSE LET name == IF hasGroup(groups, id) /\ findGroup(groups, id).name # <<>>
                   THEN findGroup(groups, id).name
                   ELSE S_Unknown
       IN  S_WelcomePre \o name \o S_WelcomePost

\* lines 372-377: the transcript the welcome effect sets
welcomeTranscript(groups, id) ==
  << [id |-> <<"system-welcome", id, now>>,
      text |-> welcomeMessageText(groups, id),
      sender |-> SYSTEM,
      timestamp |-> now] >>

\* fetchAndSetInitialSuggestions without the setInitialQuerySuggestions([]) of line 389
fetchAndSetInitialSuggestions_KeepList(currentUrls) ==
  IF ~API_KEY
  THEN UNCHANGED <<isFetchingSuggestions, initialQuerySuggestions, suggestionCalls>>
  ELSE IF Len(currentUrls) = 0
  THEN /\ initialQuerySuggestions' = <<>>
       /\ UNCHANGED <<isFetchingSuggestions, suggestionCalls>>
  ELSE /\ Len(suggestionCalls) < MaxSuggestionCalls
       /\ isFetchingSuggestions' = TRUE
       /\ UNCHANGED initialQuerySuggestions
       /\ suggestionCalls' = Append(suggestionCalls, [urls |-> currentUrls])

\* lines 381-392: fetchAndSetInitialSuggestions up to its await.  getInitialSuggestions is
\* entered with a non-empty list and a key, so it sends its request.
fetchAndSetInitialSuggestions(currentUrls) ==
  IF ~API_KEY
  THEN UNCHANGED <<isFetchingSuggestions, initialQuerySuggestions, suggestionCalls>>
  ELSE IF Len(currentUrls) = 0
  THEN /\ initialQuerySuggestions' = <<>>
       /\ UNCHANGED <<isFetchingSuggestions, suggestionCalls>>
  ELSE /\ Len(suggestionCalls) < MaxSuggestionCalls
       /\ isFetchingSuggestions' = TRUE
       /\ initialQuerySuggestions' = <<>>
       /\ suggestionCalls' = Append(suggestionCalls, [urls |-> currentUrls])

\* lines 418-425: the effect on [currentUrlsForChat]
suggestionEffect(currentUrls) ==
  IF Len(currentUrls) > 0 /\ API_KEY
  THEN fetchAndSetInitialSuggestions(currentUrls)
  ELSE /\ initialQuerySuggestions' = <<>>
       /\ UNCHANGED <<isFetchingSuggestions, suggestionCalls>>

\* The effects of the render that follows a change of urlGroups or activeUrlGroupId: the
\* welcome effect (deps [activeUrlGroupId, urlGroups]) always runs; the suggestion effect
\* runs when the active group's urls array is a new array (urlsChanged).
renderEffects(groups, id, urlsChanged) ==
  /\ chatMessages' = welcomeTranscript(groups, id)
  /\ IF urlsChanged
     THEN suggestionEffect(urlsForChat(groups, id))
     ELSE UNCHANGED <<isFetchingSuggestions, initialQuerySuggestions, suggestionCalls>>

(***************************************************************************)
(* Knowledge base: the events of the sidebar.                              *)
(***************************************************************************)

NoError == [notice |-> "null", n |-> 0]

Notice(text) == [notice |-> text, n |-> 0]

isValidUrl(urlString) == urlString \notin {"", " ", "not a url"}

isBlankUrl(urlString) == urlString \in {"", " "}

\* App.handleAddUrl and the render it causes
AddUrl(url) ==
  LET groups == handleAddUrl(urlGroups, url)
  IN  /\ urlGroups' = groups
      /\ renderEffects(groups, activeUrlGroupId, currentUrlsForChat # urlsForChat(groups, activeUrlGroupId))
      /\ UNCHANGED <<envVars, now, activeUrlGroupId, isLoading, sendCalls, summaryCalls>>

\* KnowledgeBaseManager.handleAddUrl
KBM_handleAddUrl(currentUrlInput) ==
  IF isBlankUrl(currentUrlInput)
  THEN error' = Notice("URL cannot be empty.") /\ UNCHANGED <<envVars, now, storeVars, chatMessages, isLoading, isFetchingSuggestions, initialQuerySuggestions, asyncVars>>
  ELSE IF ~isValidUrl(currentUrlInput)
  THEN error' = Notice("Invalid URL format. Please include http:// or https://") /\ UNCHANGED <<envVars, now, storeVars, chatMessages, isLoading, isFetchingSuggestions, initialQuerySuggestions, asyncVars>>
  ELSE IF Len(currentUrlsForChat) >= MAX_URLS
  THEN error' = [notice |-> "You can add a maximum of URLs to the current group.", n |-> MAX_URLS] /\ UNCHANGED <<envVars, now, storeVars, chatMessages, isLoading, isFetchingSuggestions, initialQuerySuggestions, asyncVars>>
  ELSE IF arrayIncludes(currentUrlsForChat, currentUrlInput)
  THEN error' = Notice("This URL has already been added to the current group.") /\ UNCHANGED <<envVars, now, storeVars, chatMessages, isLoading, isFetchingSuggestions, initialQuerySuggestions, asyncVars>>
  ELSE AddUrl(currentUrlInput) /\ error' = NoError

\* App.handleRemoveUrl and the render it causes (filter always builds a new array)
RemoveUrl(urlToRemove) ==
  LET groups == handleRemoveUrl(urlGroups, urlToRemove)
  IN  /\ urlGroups' = groups
      /\ renderEffects(groups, activeUrlGroupId, TRUE)
      /\ UNCHANGED <<envVars, now, activeUrlGroupId, isLoading, error, sendCalls, summaryCalls>>

\* App.handleAddFiles and the render it causes (the urls array is kept)
AddFiles(newFiles) ==
  LET groups == handleAddFiles(urlGroups, newFiles)
  IN  /\ urlGroups' = groups
      /\ renderEffects(groups, activeUrlGroupId, FALSE)
      /\ UNCHANGED <<envVars, now, activeUrlGroupId, isLoading, sendCalls, summaryCalls>>

\* KnowledgeBaseManager.handleFileChange, lines 82-83
uniqueFilesOf(files, newFiles) ==
  SelectSeq(newFiles, LAMBDA f : ~\E i \in 1..Len(files) : files[i].name = f.name)

\* KnowledgeBaseManager.handleFileChange
KBM_handleFileChange(newFiles) ==
  LET uniqueFiles == uniqueFilesOf(currentFilesForChat, newFiles)
      notice == IF Len(uniqueFiles) < Len(newFiles)
                THEN [notice |-> "Skipped duplicate files.", n |-> Len(newFiles) - Len(uniqueFiles)]
                ELSE NoError
  IN  IF Len(newFiles) > 0
      THEN /\ error' = notice
           /\ IF Len(uniqueFiles) > 0
              THEN AddFiles(uniqueFiles)
              ELSE UNCHANGED <<envVars, now, storeVars, chatMessages, isLoading, isFetchingSuggestions, initialQuerySuggestions, asyncVars>>
      ELSE UNCHANGED vars

\* App.handleRemoveFile and the render it causes (the urls array is kept)
RemoveFile(fileName) ==
  LET groups == handleRemoveFile(urlGroups, fileName)
  IN  /\ urlGroups' = groups
      /\ renderEffects(groups, activeUrlGroupId, FALSE)
      /\ UNCHANGED <<envVars, now, activeUrlGroupId, isLoading, error, sendCalls, summaryCalls>>

\* the group select: onSetGroupId = setActiveUrlGroupId
SetActiveGroup(id) ==
  IF id = activeUrlGroupId
  THEN UNCHANGED vars
  ELSE /\ activeUrlGroupId' = id
       /\ renderEffects(urlGroups, id, TRUE)
       /\ UNCHANGED <<envVars, now, urlGroups, isLoading, error, sendCalls, summaryCalls>>

(***************************************************************************)
(* Conversation controller: submission.                                    *)
(***************************************************************************)

\* the replacement appended when no message has the id
replaceById_Upsert(messages, id, replacement) ==
  IF \E i \in 1..Len(messages) : messages[i].id = id
  THEN [i \in 1..Len(messages) |-> IF messages[i].id = id THEN replacement ELSE messages[i]]
  ELSE Append(messages, replacement)

\* prevMessages.map(msg => msg.id === id ? replacement : msg)
replaceById(messages, id, replacement) ==
  [i \in 1..Len(messages) |-> IF messages[i].id = id THEN replacement ELSE messages[i]]

RemoveAt(calls, i) == SubSeq(calls, 1, i - 1) \o SubSeq(calls, i + 1, Len(calls))

\* fileToPart, given the content the reader delivered
fileToPart(file) ==
  IF \/ startsWith(file.type, S_imagePrefix)
     \/ file.type = S_applicationPdf
     \/ startsWith(file.type, S_audioPrefix)
     \/ startsWith(file.type, S_videoPrefix)
  THEN [inlineData |-> [mimeType |-> IF file.type = <<>> THEN S_octetStream ELSE file.type,
                        data |-> <<"base64", file.body>>]]
  ELSE [text |-> S_FileHeader \o file.name \o S_ContentHeader \o file.body \o S_FileTrailer]

\* lines 505-518
userMessageOf(query, t) == [id |-> <<"user", t>>, text |-> query, sender |-> USER, timestamp |-> t]

modelPlaceholderMessageOf(t) ==
  [id |-> <<"model-response", t>>, text |-> S_Thinking, sender |-> MODEL, timestamp |-> t,
   isLoading |-> TRUE]

\* the guard of handleSendMessage without its isLoading test
sendRejected_IgnoreLoading(query) == trim(query) = <<>> \/ isFetchingSuggestions

\* lines 478-479: the guard of handleSendMessage
sendRejected(query) == trim(query) = <<>> \/ isLoading \/ isFetchingSuggestions

\* an accepted submission that puts the placeholder ahead of the user's message
sendAccepted_PlaceholderFirst(query) ==
  LET t == now + 1
      modelPlaceholderMessage == modelPlaceholderMessageOf(t)
      call == [query |-> query, urls |-> currentUrlsForChat, files |-> currentFilesForChat,
               placeholder |-> modelPlaceholderMessage]
  IN  /\ now < MaxNow
      /\ Len(chatMessages) + 2 <= MaxMessages
      /\ now' = t
      /\ isLoading' = TRUE
      /\ initialQuerySuggestions' = <<>>
      /\ chatMessages' = chatMessages \o <<modelPlaceholderMessage, userMessageOf(query, t)>>
      /\ sendCalls' = Append(sendCalls,
            IF Len(currentFilesForChat) > 0
            THEN With(call, "stage", "encode")
            ELSE With(With(call, "stage", "generate"), "fileParts", <<>>))
      /\ UNCHANGED <<envVars, storeVars, isFetchingSuggestions, error, suggestionCalls,
                     summaryCalls>>

\* lines 502-529: an accepted submission, up to its first await.  Date.now() is read at a
\* later millisecond than by any earlier submission.
sendAccepted(query) ==
  LET t == now + 1
      modelPlaceholderMessage == modelPlaceholderMessageOf(t)
      call == [query |-> query, urls |-> currentUrlsForChat, files |-> currentFilesForChat,
               placeholder |-> modelPlaceholderMessage]
  IN  /\ now < MaxNow
      /\ Len(chatMessages) + 2 <= MaxMessages
      /\ now' = t
      /\ isLoading' = TRUE
      /\ initialQuerySuggestions' = <<>>
      /\ chatMessages' = chatMessages \o <<userMessageOf(query, t), modelPlaceholderMessage>>
      /\ sendCalls' = Append(sendCalls,
            IF Len(currentFilesForChat) > 0
            THEN With(call, "stage", "encode")
            ELSE With(With(call, "stage", "generate"), "fileParts", <<>>))
      /\ UNCHANGED <<envVars, storeVars, isFetchingSuggestions, error, suggestionCalls,
                     summaryCalls>>

\* lines 481-500: the notices appended instead of a submission
systemNotice(kind, text) == [id |-> <<kind, now>>, text |-> text, sender |-> SYSTEM, timestamp |-> now]

sendNotice(message) ==
  /\ Len(chatMessages) < MaxMessages
  /\ chatMessages' = Append(chatMessages, message)
  /\ UNCHANGED <<envVars, now, storeVars, isLoading, isFetchingSuggestions,
                 initialQuerySuggestions, error, asyncVars>>

\* handleSendMessage with the key test ahead of the connectivity test
handleSendMessage_KeyFirst(query, onLine) ==
  IF sendRejected(query) THEN UNCHANGED vars
  ELSE IF ~API_KEY THEN sendNotice(systemNotice("error-apikey", S_ApiKeyNotConfigured))
  ELSE IF ~onLine THEN sendNotice(systemNotice("sys-offline", S_Offline))
  ELSE sendAccepted(query)

\* handleSendMessage without the key test of lines 491-500
handleSendMessage_NoKeyTest(query, onLine) ==
  IF sendRejected(query) THEN UNCHANGED vars
  ELSE IF ~onLine THEN sendNotice(systemNotice("sys-offline", S_Offline))
  ELSE sendAccepted(query)

\* onLine: the value of navigator.onLine when the handler reads it
handleSendMessage(query, onLine) ==
  IF sendRejected(query) THEN UNCHANGED vars
  ELSE IF ~onLine THEN sendNotice(systemNotice("sys-offline", S_Offline))
  ELSE IF ~API_KEY THEN sendNotice(systemNotice("error-apikey", S_ApiKeyNotConfigured))
  ELSE sendAccepted(query)

\* the answer appended as a new message, the placeholder left as it is
sendSucceeded_Append(messages, placeholder, response) ==
  Append(messages,
         With(With(placeholder, "text",
                   IF response.text = <<>> THEN S_EmptyResponse ELSE response.text),
              "isLoading", FALSE))

\* lines 531-537: the transcript after a successful answer
sendSucceeded(messages, placeholder, response) ==
  LET withText == With(With(placeholder, "text",
                            IF response.text = <<>> THEN S_EmptyResponse ELSE response.text),
                       "isLoading", FALSE)
  IN  replaceById(messages, placeholder.id,
                  IF "urlContextMetadata" \in DOMAIN response
                  THEN With(withText, "urlContext", response.urlContextMetadata)
                  ELSE withText)

\* the failure written into the placeholder without the sender of line 544
sendFailed_KeepSender(messages, placeholder, e) ==
  LET errorMessage == IF e.isError /\ e.message # <<>> THEN e.message ELSE S_UnexpectedError
  IN  replaceById(messages, placeholder.id,
                  With(With(placeholder, "text", S_ErrorPrefix \o errorMessage),
                       "isLoading", FALSE))

\* the failure written into the placeholder without isLoading: false of line 545
sendFailed_KeepFlag(messages, placeholder, e) ==
  LET errorMessage == IF e.isError /\ e.message # <<>> THEN e.message ELSE S_UnexpectedError
  IN  replaceById(messages, placeholder.id,
                  With(With(placeholder, "text", S_ErrorPrefix \o errorMessage),
                       "sender", SYSTEM))

\* lines 538-547: the transcript after a failure with error e
sendFailed(messages, placeholder, e) ==
  LET errorMessage == IF e.isError /\ e.message # <<>> THEN e.message ELSE S_UnexpectedError
  IN  replaceById(messages, placeholder.id,
                  With(With(With(placeholder, "text", S_ErrorPrefix \o errorMessage),
                            "sender", SYSTEM),
                       "isLoading", FALSE))

\* handleSendMessage resumed without the finally block of lines 548-550
sendSettled_NoFinally(i, outcome) ==
  /\ chatMessages' = IF outcome.ok
                     THEN sendSucceeded(chatMessages, sendCalls[i].placeholder, outcome.value)
                     ELSE sendFailed(chatMessages, sendCalls[i].placeholder, outcome.error)
  /\ sendCalls' = RemoveAt(sendCalls, i)
  /\ UNCHANGED <<envVars, now, storeVars, isLoading, isFetchingSuggestions,
                 initialQuerySuggestions, error, suggestionCalls, summaryCalls>>

\* lines 529-550: handleSendMessage resumed with the outcome of its try block
sendSettled(i, outcome) ==
  /\ chatMessages' = IF outcome.ok
                     THEN sendSucceeded(chatMessages, sendCalls[i].placeholder, outcome.value)
                     ELSE sendFailed(chatMessages, sendCalls[i].placeholder, outcome.error)
  /\ isLoading' = FALSE
  /\ sendCalls' = RemoveAt(sendCalls, i)
  /\ UNCHANGED <<envVars, now, storeVars, isFetchingSuggestions, initialQuerySuggestions,
                 error, suggestionCalls, summaryCalls>>

\* line 526 resolves: every file was read; generateContentWithContext sends its request
EncodeResolved(i) ==
  /\ sendCalls[i].stage = "encode"
  /\ sendCalls' = [sendCalls EXCEPT ![i] =
        With(With(sendCalls[i], "stage", "generate"), "fileParts",
             [k \in 1..Len(sendCalls[i].files) |-> fileToPart(sendCalls[i].files[k])])]
  /\ UNCHANGED <<envVars, now, storeVars, chatMessages, isLoading, isFetchingSuggestions,
                 initialQuerySuggestions, error, suggestionCalls, summaryCalls>>

\* line 526 rejects: a FileReader reported an error (the rejection value is the reader's
\* event, which has no message)
EncodeRejected(i) ==
  /\ sendCalls[i].stage = "encode"
  /\ sendSettled(i, Thrown(NotAnError))

\* the service answers the request of line 106
GenerateResolved(i, response) ==
  /\ sendCalls[i].stage = "generate"
  /\ sendSettled(i, resolvedOf[response])

\* the service rejects the request of line 106
GenerateRejected(i, err) ==
  /\ sendCalls[i].stage = "generate"
  /\ sendSettled(i, rejectedOf[err])

(***************************************************************************)
(* Conversation controller: suggestion prefetch.                           *)
(***************************************************************************)

\* the suggestions kept from response.text without the slice of line 410
parseSuggestions_NoCap(text) ==
  IF text = <<>> THEN <<>>
  ELSE LET parsed == JSONparse(stripFence(trim(text)))
           named == IF parsed.ok /\ parsed.value.type = "object"
                    THEN {k \in 1..Len(parsed.value.members) :
                            parsed.value.members[k].key = K_suggestions}
                    ELSE {}
       IN  IF named # {} /\ parsed.value.members[SetMax(named)].value.type = "array"
           THEN LET strings == SelectSeq(parsed.value.members[SetMax(named)].value.items,
                                         LAMBDA s : s.type = "string")
                IN  [k \in 1..Len(strings) |-> strings[k].value]
           ELSE <<>>

\* lines 393-410: the suggestions kept from response.text.  parsed.suggestions is the last
\* member of that name of a parsed object.
parseSuggestions(text) ==
  IF text = <<>> THEN <<>>
  ELSE LET parsed == JSONparse(stripFence(trim(text)))
           named == IF parsed.ok /\ parsed.value.type = "object"
                    THEN {k \in 1..Len(parsed.value.members) :
                            parsed.value.members[k].key = K_suggestions}
                    ELSE {}
       IN  IF named # {} /\ parsed.value.members[SetMax(named)].value.type = "array"
           THEN LET strings == SelectSeq(parsed.value.members[SetMax(named)].value.items,
                                         LAMBDA s : s.type = "string")
                IN  slice0([k \in 1..Len(strings) |-> strings[k].value], 4)
           ELSE <<>>

\* answers of the service to the suggestion request: no text, a fenced JSON text, a text
\* that is cut off
SuggestionTexts == {<<>>, TX_fenced, TX_malformed}

\* further answers: a text with more than four strings among other entries, and texts
\* without a suggestions array
SuggestionSamples == SuggestionTexts \cup {TX_many, TX_notArray, TX_noKey}

\* parseSuggestions, tabulated over the answers of the samples
suggestionsOf == [text \in SuggestionSamples |-> parseSuggestions(text)]

\* lines 392-415: the service answers the request of getInitialSuggestions
SuggestionsResolved(i, text) ==
  /\ initialQuerySuggestions' = suggestionsOf[text]
  /\ isFetchingSuggestions' = FALSE
  /\ suggestionCalls' = RemoveAt(suggestionCalls, i)
  /\ UNCHANGED <<envVars, now, storeVars, chatMessages, isLoading, error, sendCalls,
                 summaryCalls>>

\* the rejection handled without the finally block of lines 413-415
SuggestionsRejected_NoFinally(i) ==
  /\ suggestionCalls' = RemoveAt(suggestionCalls, i)
  /\ UNCHANGED <<envVars, now, storeVars, chatMessages, isLoading, isFetchingSuggestions,
                 initialQuerySuggestions, error, sendCalls, summaryCalls>>

\* lines 411-415: the service rejects it
SuggestionsRejected(i) ==
  /\ isFetchingSuggestions' = FALSE
  /\ suggestionCalls' = RemoveAt(suggestionCalls, i)
  /\ UNCHANGED <<envVars, now, storeVars, chatMessages, isLoading,
                 initialQuerySuggestions, error, sendCalls, summaryCalls>>

(***************************************************************************)
(* Conversation controller: URL summaries.                                 *)
(***************************************************************************)

\* MessageItem lines 95-100
successfulUrls(message) ==
  IF "urlContext" \in DOMAIN message
  THEN LET ok == SelectSeq(message.urlContext,
                           LAMBDA meta : \/ includes(meta.urlRetrievalStatus, ST_SUCCESS)
                                         \/ meta.urlRetrievalStatus = ST_OK)
       IN  [k \in 1..Len(ok) |-> ok[k].retrievedUrl]
  ELSE <<>>

\* lines 556-560 and 564-575
setSummarizing(messages, messageId) ==
  [k \in 1..Len(messages) |->
     IF messages[k].id = messageId THEN With(messages[k], "isSummarizing", TRUE)
     ELSE messages[k]]

\* the summary update that leaves isSummarizing as it is
setSummary_KeepFlag(messages, messageId, summary) ==
  [k \in 1..Len(messages) |->
     IF messages[k].id = messageId THEN With(messages[k], "summary", summary)
     ELSE messages[k]]

\* the summary update that keeps a summary the message already has
setSummary_FirstWins(messages, messageId, summary) ==
  [k \in 1..Len(messages) |->
     IF messages[k].id = messageId
     THEN With(With(messages[k], "isSummarizing", FALSE), "summary",
               IF "summary" \in DOMAIN messages[k] THEN messages[k].summary ELSE summary)
     ELSE messages[k]]

setSummary(messages, messageId, summary) ==
  [k \in 1..Len(messages) |->
     IF messages[k].id = messageId
     THEN With(With(messages[k], "isSummarizing", FALSE), "summary", summary)
     ELSE messages[k]]

\* lines 563-575: the summary attached for an outcome of getSummaryForUrls
summaryOf(outcome) ==
  IF outcome.ok THEN outcome.value
  ELSE S_ErrorPrefix \o (IF outcome.error.isError /\ outcome.error.message # <<>>
                         THEN outcome.error.message
                         ELSE S_FailedSummary)

\* summaryOf for the outcomes of the samples, tabulated
summaryTextOf ==
  [outcome \in {resolvedOf[response] : response \in SummaryResponses}
                 \cup {rejectedOf[err] : err \in SummaryErrors}
                 \cup {Thrown(getAiInstanceError)} |->
     summaryOf(getSummaryForUrlsSettled(outcome))]

\* handleSummarizeUrls without the test of line 554
handleSummarizeUrls_NoGuard(messageId, urls) ==
  IF ~API_KEY
  THEN /\ chatMessages' =
            setSummary(setSummarizing(chatMessages, messageId), messageId,
                       summaryTextOf[Thrown(getAiInstanceError)])
       /\ UNCHANGED <<envVars, now, storeVars, isLoading, isFetchingSuggestions,
                      initialQuerySuggestions, error, asyncVars>>
  ELSE /\ Len(summaryCalls) < MaxSummaryCalls
       /\ chatMessages' = setSummarizing(chatMessages, messageId)
       /\ summaryCalls' = Append(summaryCalls, [messageId |-> messageId, urls |-> urls])
       /\ UNCHANGED <<envVars, now, storeVars, isLoading, isFetchingSuggestions,
                      initialQuerySuggestions, error, sendCalls, suggestionCalls>>

\* handleSummarizeUrls up to its await.  Without a key getAiInstance throws inside
\* generateContentWithContext and the handler's catch runs before any other event.
handleSummarizeUrls(messageId, urls) ==
  IF Len(urls) = 0 THEN UNCHANGED vars
  ELSE IF ~API_KEY
  THEN /\ chatMessages' =
            setSummary(setSummarizing(chatMessages, messageId), messageId,
                       summaryTextOf[Thrown(getAiInstanceError)])
       /\ UNCHANGED <<envVars, now, storeVars, isLoading, isFetchingSuggestions,
                      initialQuerySuggestions, error, asyncVars>>
  ELSE /\ Len(summaryCalls) < MaxSummaryCalls
       /\ chatMessages' = setSummarizing(chatMessages, messageId)
       /\ summaryCalls' = Append(summaryCalls, [messageId |-> messageId, urls |-> urls])
       /\ UNCHANGED <<envVars, now, storeVars, isLoading, isFetchingSuggestions,
                      initialQuerySuggestions, error, sendCalls, suggestionCalls>>

\* handleSummarizeUrls resumed with the outcome of generateContentWithContext
SummarySettled(i, outcome) ==
  /\ chatMessages' = setSummary(chatMessages, summaryCalls[i].messageId,
                                summaryTextOf[outcome])
  /\ summaryCalls' = RemoveAt(summaryCalls, i)
  /\ UNCHANGED <<envVars, now, storeVars, isLoading, isFetchingSuggestions,
                 initialQuerySuggestions, error, sendCalls, suggestionCalls>>

(***************************************************************************)
(* The state after the first render and its effects, and the events.       *)
(***************************************************************************)

Init ==
  /\ API_KEY \in BOOLEAN
  /\ now = 0
  /\ urlGroups = INITIAL_URL_GROUPS
  /\ activeUrlGroupId = INITIAL_URL_GROUPS[1].id
  /\ chatMessages = welcomeTranscript(INITIAL_URL_GROUPS, INITIAL_URL_GROUPS[1].id)
  /\ isLoading = FALSE
  /\ isFetchingSuggestions = API_KEY
  /\ initialQuerySuggestions = <<>>
  /\ error = NoError
  /\ sendCalls = <<>>
  /\ suggestionCalls = IF API_KEY THEN <<[urls |-> GEMINI_DOCS_URLS]>> ELSE <<>>
  /\ summaryCalls = <<>>
  /\ gatewayCall = NoCall

GroupIds == {INITIAL_URL_GROUPS[i].id : i \in 1..Len(INITIAL_URL_GROUPS)}

F_text == File(1, M_textPlain)

\* the Remove button of a listed URL
RemoveUrlClick(url) == arrayIncludes(currentUrlsForChat, url) /\ RemoveUrl(url)

\* the Remove button of a listed file
RemoveFileClick(fileName) ==
  /\ \E i \in 1..Len(currentFilesForChat) : currentFilesForChat[i].name = fileName
  /\ RemoveFile(fileName)

\* the store operations called directly
StoreAddUrl(url) == AddUrl(url) /\ UNCHANGED error

Submit == \E query \in {Q_hello, Q_blank}, onLine \in BOOLEAN : handleSendMessage(query, onLine)

\* handleSuggestedQueryClick
SuggestedQueryClick ==
  \E k \in 1..Len(initialQuerySuggestions), onLine \in BOOLEAN :
    handleSendMessage(initialQuerySuggestions[k], onLine)

\* the Summarize button of a model message that shows retrieved URLs, or a call of the
\* handler with no URL
Summarize ==
  \E k \in 1..Len(chatMessages) :
    /\ chatMessages[k].sender = MODEL
    /\ "urlContext" \in DOMAIN chatMessages[k]
    /\ \E urls \in {<<>>, successfulUrls(chatMessages[k])} :
         handleSummarizeUrls(chatMessages[k].id, urls)

SummaryDone ==
  \E i \in 1..Len(summaryCalls) :
    \/ \E response \in SummaryResponses : SummarySettled(i, resolvedOf[response])
    \/ \E err \in SummaryErrors : SummarySettled(i, rejectedOf[err])

EncodeDone == \E i \in 1..Len(sendCalls) : EncodeResolved(i) \/ EncodeRejected(i)

GenerateDone ==
  \E i \in 1..Len(sendCalls) :
    \/ \E response \in GenerateResponses : GenerateResolved(i, response)
    \/ \E err \in ServiceErrors : GenerateRejected(i, err)

SuggestionsDone ==
  \E i \in 1..Len(suggestionCalls) :
    \/ \E text \in SuggestionTexts : SuggestionsResolved(i, text)
    \/ SuggestionsRejected(i)

(***************************************************************************)
(* Spec: the events of the running application, with one URL and one file  *)
(* to add and remove.                                                      *)
(***************************************************************************)

Next ==
  \/ \E id \in GroupIds : SetActiveGroup(id)
  \/ \E u \in {FreshUrl} : KBM_handleAddUrl(u)
  \/ \E u \in {FreshUrl} : RemoveUrlClick(u)
  \/ \E b \in {<<F_text>>} : KBM_handleFileChange(b)
  \/ \E n \in {F_text.name} : RemoveFileClick(n)
  \/ Submit
  \/ SuggestedQueryClick
  \/ EncodeDone
  \/ GenerateDone
  \/ SuggestionsDone
  \/ Summarize
  \/ SummaryDone

Spec == Init /\ [][Next]_vars

\* SpecLive: Spec with every file read and every request of a submission coming to an end
\* (the reader fires onload or onerror, the awaited generateContent resolves or rejects)
SpecLive == Init /\ [][Next]_vars /\ WF_vars(EncodeDone) /\ WF_vars(GenerateDone)

(***************************************************************************)
(* SpecSuggestions: the suggestion requests of the running application     *)
(* answered with every sample text, among submissions and changes of the   *)
(* URL list.                                                               *)
(***************************************************************************)

SuggestionsAnswered ==
  \E i \in 1..Len(suggestionCalls) :
    \/ \E text \in SuggestionSamples : SuggestionsResolved(i, text)
    \/ SuggestionsRejected(i)

NextSuggestions ==
  \/ \E id \in GroupIds : SetActiveGroup(id)
  \/ \E u \in {FreshUrl} : KBM_handleAddUrl(u)
  \/ \E u \in {FreshUrl} : RemoveUrlClick(u)
  \/ Submit
  \/ SuggestedQueryClick
  \/ GenerateDone
  \/ SuggestionsAnswered

SpecSuggestions == Init /\ [][NextSuggestions]_vars

(***************************************************************************)
(* SpecKB: the knowledge base store driven to its capacities, through the  *)
(* sidebar and through direct calls of the store operations.  URLs are     *)
(* opaque, so the fresh URLs are added in one order and a suggestion       *)
(* request, once sent, is left unanswered.                                 *)
(***************************************************************************)

KBFreshUrls ==
  << "https://example.com/1", "https://example.com/2", "https://example.com/3",
     "https://example.com/4", "https://example.com/5", "https://example.com/6" >>

isFreshUrl(url) == arrayIncludes(KBFreshUrls, url)

\* the URLs typed into the sidebar: the next fresh URL, a listed URL, a text that is no URL
KBAddInputs ==
  LET n == Len(SelectSeq(currentUrlsForChat, isFreshUrl))
  IN  {"not a url"}
        \cup (IF n < Len(KBFreshUrls) THEN {KBFreshUrls[n + 1]} ELSE {})
        \cup (IF Len(currentUrlsForChat) > 0 THEN {currentUrlsForChat[1]} ELSE {})

\* the URLs removed: the fresh URL added last, and a URL that is not listed
KBRemoveInputs ==
  LET n == Len(currentUrlsForChat)
  IN  {AbsentUrl} \cup (IF n > 0 /\ isFreshUrl(currentUrlsForChat[n])
                        THEN {currentUrlsForChat[n]} ELSE {})

\* the imports: all but one file of a full list, and FileOverflow files more than fit
BigBatch == [i \in 1..(MAX_FILES - 1) |-> File(i, M_textPlain)]

OverflowBatch == [i \in 1..(FileOverflow + 1) |-> File(MAX_FILES - 1 + i, M_imagePng)]

\* an import of a directory tree that holds two files of one name
DupBatch ==
  <<File(MAX_FILES + FileOverflow + 1, M_textPlain), File(MAX_FILES + FileOverflow + 1, M_imagePng)>>

\* the files removed: the overflow file imported last, and a file that is not listed
KBRemoveFileInputs ==
  LET n == Len(currentFilesForChat)
  IN  {File(0, M_textPlain).name}
        \cup (IF n > 0 /\ \E i \in 1..Len(OverflowBatch) :
                            OverflowBatch[i].name = currentFilesForChat[n].name
              THEN {currentFilesForChat[n].name} ELSE {})

NextKB ==
  \/ \E id \in GroupIds : SetActiveGroup(id)
  \/ \E u \in KBAddInputs : KBM_handleAddUrl(u)
  \/ \E u \in KBAddInputs \ {"not a url"} : StoreAddUrl(u)
  \/ \E u \in KBRemoveInputs : RemoveUrl(u)
  \/ \E b \in {BigBatch, OverflowBatch} : KBM_handleFileChange(b)
  \/ \E n \in KBRemoveFileInputs : RemoveFile(n)

SpecKB == Init /\ [][NextKB]_vars


(***************************************************************************)
(* SpecFiles: the file lists of the groups under imports and removals,     *)
(* among them the import of a directory tree with two files of one name.   *)
(***************************************************************************)

NextFiles ==
  \/ \E id \in GroupIds : SetActiveGroup(id)
  \/ \E b \in {BigBatch, OverflowBatch, DupBatch} : KBM_handleFileChange(b)
  \/ \E n \in KBRemoveFileInputs \cup {DupBatch[1].name} : RemoveFile(n)

SpecFiles == Init /\ [][NextFiles]_vars

(***************************************************************************)
(* SpecGW: the functions of the gateway called one at a time, by any       *)
(* caller and with any of the sample arguments, and answered by the        *)
(* service.                                                                *)
(***************************************************************************)

\* URL lists passed to the gateway
GatewayUrlLists == {<<>>, <<GEMINI_DOCS_URLS[1]>>, GEMINI_DOCS_URLS}

\* file parts passed to generateContentWithContext
GatewayFileParts == {<<>>, <<[text |-> T_answer]>>}

\* words of the messages of the errors the service throws: the keywords of lines 50-65 in
\* other letter cases ("403", "API Key", "429", "Quota", "503", "Service Unavailable",
\* "Overloaded", "NETWORK", "Fetch Failed", "Failed to fetch", "SAFETY", "Blocked",
\* "Candidate") and a word that is no keyword ("boom")
ErrorWords ==
  { <<"4","0","3">>,
    <<"A","P","I"," ","K","e","y">>,
    <<"4","2","9">>,
    <<"Q","u","o","t","a">>,
    <<"5","0","3">>,
    <<"S","e","r","v","i","c","e"," ","U","n","a","v","a","i","l","a","b","l","e">>,
    <<"O","v","e","r","l","o","a","d","e","d">>,
    <<"N","E","T","W","O","R","K">>,
    <<"F","e","t","c","h"," ","F","a","i","l","e","d">>,
    <<"F","a","i","l","e","d"," ","t","o"," ","f","e","t","c","h">>,
    <<"S","A","F","E","T","Y">>,
    <<"B","l","o","c","k","e","d">>,
    <<"C","a","n","d","i","d","a","t","e">>,
    <<"b","o","o","m">> }

\* errors whose message is two of the words
WordErrors == {Error(a \o <<" ">> \o b) : a \in ErrorWords, b \in ErrorWords}

gatewayVarsOnly ==
  UNCHANGED <<API_KEY, now, storeVars, chatMessages, isLoading, isFetchingSuggestions,
              initialQuerySuggestions, error, asyncVars>>

CallGenerate ==
  /\ gatewayCall = NoCall
  /\ \E urls \in GatewayUrlLists, fileParts \in GatewayFileParts :
       gatewayCall' = generateContentWithContext(Q_hello, urls, fileParts)
  /\ gatewayVarsOnly

CallSummary ==
  /\ gatewayCall = NoCall
  /\ \E urls \in GatewayUrlLists : gatewayCall' = getSummaryForUrls(urls)
  /\ gatewayVarsOnly

CallSuggestions ==
  /\ gatewayCall = NoCall
  /\ \E urls \in GatewayUrlLists : gatewayCall' = getInitialSuggestions(urls)
  /\ gatewayVarsOnly

ServiceAnswers ==
  /\ gatewayCall.stage = "awaiting"
  /\ \E response \in GenerateResponses \cup {[text |-> t, candidates |-> <<>>] : t \in SuggestionTexts} :
       gatewayCall' = gatewayResolved(gatewayCall, response)
  /\ gatewayVarsOnly

ServiceThrows ==
  /\ gatewayCall.stage = "awaiting"
  /\ \E err \in ServiceErrors \cup SummaryErrors \cup WordErrors :
       gatewayCall' = gatewayRejected(gatewayCall, err)
  /\ gatewayVarsOnly

\* the caller has taken the outcome
CallOver ==
  /\ gatewayCall.stage = "settled"
  /\ gatewayCall' = NoCall
  /\ gatewayVarsOnly

NextGW ==
  \/ CallGenerate
  \/ CallSummary
  \/ CallSuggestions
  \/ ServiceAnswers
  \/ ServiceThrows
  \/ CallOver

SpecGW == Init /\ [][NextGW]_vars
(***************************************************************************)
(* Properties.                                                             *)
(***************************************************************************)

\* "offline", the word of the offline notice
N_offline == <<"o","f","f","l","i","n","e">>

\* "API Key is not configured", the words of the configuration notice
N_notConfigured ==
  <<"A","P","I"," ","K","e","y"," ","i","s"," ","n","o","t"," ","c","o","n","f","i","g","u","r",
    "e","d">>

\* every query the events submit
AllQueries == {Q_hello, Q_blank, Q_suggested}

\* every URL the events add
AllUrls ==
  {GEMINI_DOCS_URLS[i] : i \in 1..Len(GEMINI_DOCS_URLS)}
    \cup {MODEL_CAPABILITIES_URLS[i] : i \in 1..Len(MODEL_CAPABILITIES_URLS)}
    \cup {KBFreshUrls[i] : i \in 1..Len(KBFreshUrls)}
    \cup {FreshUrl}

\* C1: in every reachable state every group has at most 20 URLs and at most 50 files,
\* whatever sequence of addUrl, removeUrl, addFiles, removeFile and setActiveGroup led to it.
C1_Capacity ==
  \A i \in 1..Len(urlGroups) :
    Len(urlGroups[i].urls) <= 20 /\ Len(urlGroups[i].files) <= 50

\* a group filled to both capacities, after an addUrl at capacity was turned down
C1_Witness ==
  /\ \E i \in 1..Len(urlGroups) :
       Len(urlGroups[i].urls) = 20 /\ Len(urlGroups[i].files) = 50
  /\ error.notice = "You can add a maximum of URLs to the current group."

\* C2: addUrl(u) of a URL that is already in the active group's list leaves every group's
\* URL and file lists unchanged, and in every reachable state the URLs of each group are
\* pairwise distinct.
C2_DuplicateUrl ==
  /\ [](\A i \in 1..Len(urlGroups) :
          \A a, b \in 1..Len(urlGroups[i].urls) :
            a # b => urlGroups[i].urls[a] # urlGroups[i].urls[b])
  /\ [][\A u \in AllUrls :
          (arrayIncludes(currentUrlsForChat, u) /\ (StoreAddUrl(u) \/ KBM_handleAddUrl(u)))
            => urlGroups' = urlGroups]_vars

\* a duplicate was typed into the sidebar and turned down
C2_Witness == error.notice = "This URL has already been added to the current group."

\* C3 as stated: a switch to a different group leaves exactly one SYSTEM message, the
\* welcome message whose text names the newly active group, and an empty suggestion list,
\* whatever the transcript, the suggestions and the requests in flight were before.
C3_Original ==
  [][\A id \in GroupIds :
       (id # activeUrlGroupId /\ SetActiveGroup(id)) =>
         /\ Len(chatMessages') = 1
         /\ chatMessages'[1].sender = SYSTEM
         /\ chatMessages'[1].id[1] = "system-welcome"
         /\ includes(chatMessages'[1].text, findGroup(urlGroups, id).name)
         /\ initialQuerySuggestions' = <<>>]_vars

\* C3: a switch to a different group leaves exactly one SYSTEM message and an empty
\* suggestion list, whatever the transcript, the suggestions and the requests in flight
\* were before.  The message is the welcome message of the newly active group: its id names
\* the group, and its text names the group when a key is configured and is the notice that
\* the key is not configured otherwise.
C3_SwitchResets ==
  [][\A id \in GroupIds :
       (id # activeUrlGroupId /\ SetActiveGroup(id)) =>
         /\ Len(chatMessages') = 1
         /\ chatMessages'[1].sender = SYSTEM
         /\ chatMessages'[1].id[1] = "system-welcome"
         /\ chatMessages'[1].id[2] = id
         /\ IF API_KEY
            THEN /\ startsWith(chatMessages'[1].text, S_WelcomePre)
                 /\ includes(chatMessages'[1].text, findGroup(urlGroups, id).name)
            ELSE /\ chatMessages'[1].text = S_WelcomeNoKey
                 /\ ~includes(chatMessages'[1].text, findGroup(urlGroups, id).name)
         /\ initialQuerySuggestions' = <<>>]_vars

\* the group was switched while a submission was in flight: its transcript is gone
C3_Witness ==
  /\ activeUrlGroupId # INITIAL_URL_GROUPS[1].id
  /\ Len(chatMessages) = 1
  /\ chatMessages[1].id[2] = activeUrlGroupId
  /\ Len(sendCalls) = 1
  /\ Len(suggestionCalls) = 2
  /\ initialQuerySuggestions = <<>>

\* C4: while isLoading is true a submit changes nothing, whatever the query and the
\* connectivity, and so at most one submission (and its generate call) is in flight.
C4_BusyRejects ==
  /\ [](Len(sendCalls) <= 1 /\ (Len(sendCalls) = 1 => isLoading))
  /\ [][\A q \in AllQueries, onLine \in BOOLEAN :
          (isLoading /\ handleSendMessage(q, onLine)) => UNCHANGED vars]_vars

\* a submission is in flight, waiting for the answer of its generate call
C4_Witness ==
  /\ isLoading
  /\ Len(sendCalls) = 1
  /\ sendCalls[1].stage = "generate"
  /\ chatMessages[Len(chatMessages)].id = sendCalls[1].placeholder.id

\* C5 as stated: while at least one suggestion request is outstanding a submit changes
\* nothing, also when a second request was sent before an earlier one was answered.
C5_Original ==
  [][\A q \in AllQueries, onLine \in BOOLEAN :
       (Len(suggestionCalls) > 0 /\ handleSendMessage(q, onLine)) => UNCHANGED vars]_vars

\* C6: with navigator.onLine false, the submit of a non-blank query that is not turned down
\* by the busy guard appends exactly one SYSTEM message, the offline notice whose text
\* starts with "Error:"; no USER or MODEL message is added, isLoading stays false and no
\* request is sent.
C6_OfflineNotice ==
  [][\A q \in AllQueries :
       (trim(q) # <<>> /\ ~isLoading /\ ~isFetchingSuggestions /\ handleSendMessage(q, FALSE)) =>
         /\ Len(chatMessages') = Len(chatMessages) + 1
         /\ SubSeq(chatMessages', 1, Len(chatMessages)) = chatMessages
         /\ chatMessages'[Len(chatMessages')].sender = SYSTEM
         /\ startsWith(chatMessages'[Len(chatMessages')].text, S_ErrorMarker)
         /\ includes(chatMessages'[Len(chatMessages')].text, N_offline)
         /\ ~isLoading'
         /\ UNCHANGED asyncVars]_vars

\* the offline notice is the last message, nothing is in flight
C6_Witness ==
  /\ chatMessages[Len(chatMessages)].id[1] = "sys-offline"
  /\ chatMessages[Len(chatMessages)].text = S_Offline
  /\ ~isLoading
  /\ sendCalls = <<>>

\* C7: without a key, the submit of a non-blank query while online appends exactly one
\* SYSTEM message, the notice that the API key is not configured; no USER or MODEL message
\* is added, isLoading stays false and no request is sent.
C7_MissingKeyNotice ==
  [][\A q \in AllQueries :
       (trim(q) # <<>> /\ ~API_KEY /\ handleSendMessage(q, TRUE)) =>
         /\ Len(chatMessages') = Len(chatMessages) + 1
         /\ SubSeq(chatMessages', 1, Len(chatMessages)) = chatMessages
         /\ chatMessages'[Len(chatMessages')].sender = SYSTEM
         /\ includes(chatMessages'[Len(chatMessages')].text, N_notConfigured)
         /\ ~isLoading /\ ~isLoading'
         /\ UNCHANGED asyncVars]_vars

\* the configuration notice is the last message, nothing is in flight
C7_Witness ==
  /\ ~API_KEY
  /\ chatMessages[Len(chatMessages)].id[1] = "error-apikey"
  /\ chatMessages[Len(chatMessages)].text = S_ApiKeyNotConfigured
  /\ ~isLoading
  /\ asyncVars = <<(<<>>), (<<>>), (<<>>)>>

\* C8 as stated: when the service answers with empty text and a first candidate whose
\* finishReason R is not "STOP", the placeholder (still in the transcript) becomes a SYSTEM
\* error message whose text contains R, for every R.
C8_Original ==
  [][\A i \in 1..Len(sendCalls), response \in GenerateResponses :
       (/\ sendCalls' = RemoveAt(sendCalls, i)
        /\ response.text = <<>>
        /\ Len(response.candidates) > 0
        /\ response.candidates[1].finishReason # R_STOP
        /\ arrayIncludes(chatMessages, sendCalls[i].placeholder)
        /\ GenerateResolved(i, response)) =>
         \E k \in 1..Len(chatMessages') :
           /\ chatMessages'[k].id = sendCalls[i].placeholder.id
           /\ chatMessages'[k].sender = SYSTEM
           /\ startsWith(chatMessages'[k].text, S_ErrorMarker)
           /\ includes(chatMessages'[k].text, response.candidates[1].finishReason)]_vars

\* C9: when the generate call of a submission succeeds, the transcript keeps its length, the
\* message with the placeholder's id keeps its position and its MODEL sender, its text is the
\* returned text (the empty-response notice when that text is empty), its isLoading is false
\* and its urlContext is the returned metadata; every other message is unchanged.
C9_SuccessInPlace ==
  [][\A i \in 1..Len(sendCalls), response \in GenerateResponses :
       (/\ sendCalls' = RemoveAt(sendCalls, i)
        /\ generateContentResolved(response).ok
        /\ GenerateResolved(i, response)) =>
         LET returned == generateContentResolved(response).value
         IN  /\ Len(chatMessages') = Len(chatMessages)
             /\ \A k \in 1..Len(chatMessages) :
                  IF chatMessages[k].id = sendCalls[i].placeholder.id
                  THEN /\ chatMessages'[k].id = chatMessages[k].id
                       /\ chatMessages'[k].sender = MODEL
                       /\ chatMessages'[k].text =
                            (IF returned.text = <<>> THEN S_EmptyResponse ELSE returned.text)
                       /\ chatMessages'[k].isLoading = FALSE
                       /\ IF "urlContextMetadata" \in DOMAIN returned
                          THEN chatMessages'[k].urlContext = returned.urlContextMetadata
                          ELSE "urlContext" \notin DOMAIN chatMessages'[k]
                  ELSE chatMessages'[k] = chatMessages[k]]_vars

\* the placeholder, behind its USER message, carries the answer and its metadata
C9_Witness ==
  \E k \in 2..Len(chatMessages) :
    /\ chatMessages[k].id[1] = "model-response"
    /\ chatMessages[k].sender = MODEL
    /\ chatMessages[k].text = T_answer
    /\ chatMessages[k].isLoading = FALSE
    /\ chatMessages[k].urlContext = SuccessMetadata
    /\ chatMessages[k - 1].sender = USER
    /\ ~isLoading

\* the USER message of the query at k - 1, the placeholder at k turned into the error message
ErrorShown(messages, k, call, e) ==
  /\ k > 1
  /\ messages[k - 1].sender = USER
  /\ messages[k - 1].text = call.query
  /\ messages[k].id = call.placeholder.id
  /\ messages[k].sender = SYSTEM
  /\ messages[k].isLoading = FALSE
  /\ startsWith(messages[k].text, S_ErrorMarker)
  /\ messages[k].text =
       S_ErrorPrefix \o (IF e.isError /\ e.message # <<>> THEN e.message ELSE S_UnexpectedError)

\* the former placeholder of call shows error e behind the USER message of the query
Kept(messages, call, e) == \E k \in 1..Len(messages) : ErrorShown(messages, k, call, e)

\* C10 as stated: when the encoding or the generate call of an accepted submission fails,
\* the transcript then holds the USER message with the query, immediately followed by the
\* former placeholder, now a SYSTEM message with isLoading false and the text "Error: " and
\* the error message, whatever happened while the request was in flight.
C10_Original ==
  [][\A i \in 1..Len(sendCalls) :
       (sendCalls' = RemoveAt(sendCalls, i)) =>
         /\ EncodeRejected(i) => Kept(chatMessages', sendCalls[i], NotAnError)
         /\ \A err \in ServiceErrors :
              GenerateRejected(i, err)
                => Kept(chatMessages', sendCalls[i], generateContentRejected(err).error)
         /\ \A response \in GenerateResponses :
              (GenerateResolved(i, response) /\ ~generateContentResolved(response).ok)
                => Kept(chatMessages', sendCalls[i], generateContentResolved(response).error)]_vars

\* this step ends submission i with error e: the placeholder, if still in the transcript,
\* shows e behind the USER message and nothing else changes; a transcript without the
\* placeholder holds no USER message and stays as it is
ShownOrGone(i, e) ==
  /\ ~isLoading'
  /\ Len(chatMessages') = Len(chatMessages)
  /\ IF arrayIncludes(chatMessages, sendCalls[i].placeholder)
     THEN \E k \in 1..Len(chatMessages) :
            /\ chatMessages[k] = sendCalls[i].placeholder
            /\ chatMessages[k - 1] =
                 userMessageOf(sendCalls[i].query, sendCalls[i].placeholder.timestamp)
            /\ ErrorShown(chatMessages', k, sendCalls[i], e)
            /\ \A j \in 1..Len(chatMessages) : j # k => chatMessages'[j] = chatMessages[j]
     ELSE /\ chatMessages' = chatMessages
          /\ \A k \in 1..Len(chatMessages) : chatMessages[k].sender # USER

\* C10: when the encoding or the generate call of an accepted submission fails, isLoading
\* becomes false, and if the placeholder is still in the transcript, the transcript keeps its
\* length and holds the USER message with the query, immediately followed by the former
\* placeholder, now a SYSTEM message with isLoading false and the text "Error: " and the
\* error message.  If the transcript was replaced while the request was in flight (a group
\* switch or a knowledge base edit), the query is gone and the failure changes no message.
C10_FailureShown ==
  [][\A i \in 1..Len(sendCalls) :
       (sendCalls' = RemoveAt(sendCalls, i)) =>
         /\ EncodeRejected(i) => ShownOrGone(i, NotAnError)
         /\ \A err \in ServiceErrors :
              GenerateRejected(i, err) => ShownOrGone(i, generateContentRejected(err).error)
         /\ \A response \in GenerateResponses :
              (GenerateResolved(i, response) /\ ~generateContentResolved(response).ok)
                => ShownOrGone(i, generateContentResolved(response).error)]_vars

\* a failed submission: the USER message, then the former placeholder as the error message
C10_Witness ==
  \E k \in 2..Len(chatMessages) :
    /\ chatMessages[k].id[1] = "model-response"
    /\ chatMessages[k].sender = SYSTEM
    /\ startsWith(chatMessages[k].text, S_ErrorMarker)
    /\ chatMessages[k].isLoading = FALSE
    /\ chatMessages[k - 1].sender = USER
    /\ chatMessages[k - 1].text = Q_hello
    /\ ~isLoading
\* C11: handleSummarizeUrls called with an empty list of URLs changes nothing: the
\* transcript, with the isSummarizing and summary of the target message, stays as it is and
\* no request is sent.
C11_EmptySummarizeNoOp ==
  [][\A k \in 1..Len(chatMessages) :
       handleSummarizeUrls(chatMessages[k].id, <<>>) => UNCHANGED vars]_vars

\* an answer with retrieved URLs that was never summarized: the call with no URL left it so
C11_Witness ==
  \E k \in 1..Len(chatMessages) :
    /\ chatMessages[k].sender = MODEL
    /\ "urlContext" \in DOMAIN chatMessages[k]
    /\ "isSummarizing" \notin DOMAIN chatMessages[k]
    /\ "summary" \notin DOMAIN chatMessages[k]
    /\ summaryCalls = <<>>


(***************************************************************************)
(* Claims about the gateway functions, checked under SpecGW.               *)
(***************************************************************************)

\* C12: getInitialSuggestions called with an empty URL list settles, whether or not a key
\* is configured, without a request to the service and with a text that the controller
\* parses into exactly one suggestion string.
C12_CannedSuggestion ==
  (/\ gatewayCall.stage = "settled"
   /\ gatewayCall.op = "getInitialSuggestions"
   /\ gatewayCall.urls = <<>>)
    => /\ gatewayCall.requests = <<>>
       /\ gatewayCall.outcome.ok
       /\ Len(parseSuggestions(gatewayCall.outcome.value.text)) = 1
       /\ parseSuggestions(gatewayCall.outcome.value.text) = <<S_AddSome>>

C12_Witness ==
  /\ ~API_KEY
  /\ gatewayCall.stage = "settled"
  /\ gatewayCall.op = "getInitialSuggestions"
  /\ gatewayCall.urls = <<>>
  /\ gatewayCall.outcome.ok

\* C14: without a key every gateway function, whatever its arguments, fails at once with
\* the error "Gemini API Key not configured..." of getAiInstance and sends no request.
C14_Original ==
  (~API_KEY /\ gatewayCall # NoCall)
    => /\ gatewayCall.stage = "settled"
       /\ gatewayCall.requests = <<>>
       /\ ~gatewayCall.outcome.ok
       /\ gatewayCall.outcome.error = getAiInstanceError

(***************************************************************************)
(* Claims about the knowledge base store, checked under SpecFiles.         *)
(***************************************************************************)

\* C13: in every reachable state the file names within each group's file list are pairwise
\* distinct, whatever batches were imported and whatever files were removed.
C13_Original ==
  \A g \in 1..Len(urlGroups) :
    \A i, j \in 1..Len(urlGroups[g].files) :
      urlGroups[g].files[i].name = urlGroups[g].files[j].name => i = j

(***************************************************************************)
(* Claims about the running application, checked under Spec.               *)
(***************************************************************************)

\* C15: in every reachable state the groups are the seed groups, with their ids and names and
\* in their order, and exactly one of them has the active group id.
C15_GroupsFixed ==
  /\ Len(urlGroups) = Len(INITIAL_URL_GROUPS)
  /\ \A g \in 1..Len(urlGroups) :
       /\ urlGroups[g].id = INITIAL_URL_GROUPS[g].id
       /\ urlGroups[g].name = INITIAL_URL_GROUPS[g].name
  /\ Cardinality({g \in 1..Len(urlGroups) : urlGroups[g].id = activeUrlGroupId}) = 1

C15_Witness ==
  /\ activeUrlGroupId # INITIAL_URL_GROUPS[1].id
  /\ \E g \in 1..Len(urlGroups) :
       /\ urlGroups[g].id = activeUrlGroupId
       /\ urlGroups[g].urls # INITIAL_URL_GROUPS[g].urls
       /\ urlGroups[g].files # <<>>

\* C16: a step of addUrl, removeUrl, addFiles or removeFile on the active group leaves the
\* transcript as it is (no message is removed, replaced or moved).
C16_Original ==
  [][\/ chatMessages' = chatMessages
     \/ ~(\/ AddUrl(FreshUrl)
          \/ RemoveUrl(FreshUrl)
          \/ AddFiles(<<F_text>>)
          \/ RemoveFile(F_text.name))]_vars

\* C17: a submission that is accepted (the query is not blank, the browser is online, the key
\* is configured, neither isLoading nor isFetchingSuggestions is set) appends in one step
\* exactly the USER message with the query text and, directly behind it, the MODEL placeholder
\* "Thinking..." with isLoading true; it sets isLoading, leaves the suggestion list empty and
\* keeps the earlier messages.
C17_AcceptedSubmission ==
  [][\A q \in AllQueries :
       (/\ API_KEY /\ ~isLoading /\ ~isFetchingSuggestions
        /\ trim(q) # <<>>
        /\ handleSendMessage(q, TRUE))
         => LET n == Len(chatMessages)
            IN  /\ Len(chatMessages') = n + 2
                /\ SubSeq(chatMessages', 1, n) = chatMessages
                /\ chatMessages'[n + 1].sender = USER
                /\ chatMessages'[n + 1].text = q
                /\ chatMessages'[n + 2].sender = MODEL
                /\ chatMessages'[n + 2].text = S_Thinking
                /\ chatMessages'[n + 2].isLoading = TRUE
                /\ isLoading'
                /\ initialQuerySuggestions' = <<>>]_vars

C17_Witness ==
  LET n == Len(chatMessages)
  IN  /\ n >= 3
      /\ chatMessages[n - 1].sender = USER
      /\ chatMessages[n - 1].text = Q_suggested
      /\ chatMessages[n].sender = MODEL
      /\ chatMessages[n].text = S_Thinking
      /\ "isLoading" \in DOMAIN chatMessages[n] /\ chatMessages[n].isLoading
      /\ isLoading
      /\ initialQuerySuggestions = <<>>
      /\ Len(sendCalls) = 1

\* message after is message before with field set to value and nothing else changed
OnlyFieldSet(before, after, field, value) ==
  /\ DOMAIN after = DOMAIN before \cup {field}
  /\ after[field] = value
  /\ \A f \in DOMAIN before \ {field} : after[f] = before[f]

\* the step starts a summary of the URLs of message k: that message gets isSummarizing true
\* and nothing else changes in the transcript
SummaryStarted(k) ==
  /\ Len(chatMessages') = Len(chatMessages)
  /\ \A j \in 1..Len(chatMessages) :
       IF chatMessages[j].id = chatMessages[k].id
       THEN OnlyFieldSet(chatMessages[j], chatMessages'[j], "isSummarizing", TRUE)
       ELSE chatMessages'[j] = chatMessages[j]

\* message after is message before with isSummarizing false and the summary of outcome: on
\* success the returned text or the fallback, on failure a text that starts with "Error: "
SummaryAttached(before, after, outcome) ==
  /\ DOMAIN after = DOMAIN before \cup {"isSummarizing", "summary"}
  /\ after.isSummarizing = FALSE
  /\ after.summary # <<>>
  /\ IF outcome.ok
     THEN after.summary = (IF outcome.value.text # <<>> THEN outcome.value.text ELSE S_NoSummary)
     ELSE startsWith(after.summary, S_ErrorPrefix)
  /\ \A f \in DOMAIN before \ {"isSummarizing", "summary"} : after[f] = before[f]

\* the outcomes of generateContentWithContext for the sample answers to a summary request
SummaryOutcomes ==
  {generateContentResolved(response) : response \in SummaryResponses}
    \cup {generateContentRejected(err) : err \in SummaryErrors}

\* C18 as stated: when the summary call for a message completes, the message has
\* isSummarizing false and the summary of the outcome, its other fields and all other
\* messages being unchanged.
C18_Original ==
  [][\A i \in 1..Len(summaryCalls) :
       (summaryCalls' = RemoveAt(summaryCalls, i)) =>
         \A outcome \in SummaryOutcomes :
           SummarySettled(i, outcome) =>
             /\ Len(chatMessages') = Len(chatMessages)
             /\ \E k \in 1..Len(chatMessages) : chatMessages[k].id = summaryCalls[i].messageId
             /\ \A k \in 1..Len(chatMessages) :
                  IF chatMessages[k].id = summaryCalls[i].messageId
                  THEN SummaryAttached(chatMessages[k], chatMessages'[k], outcome)
                  ELSE chatMessages'[k] = chatMessages[k]]_vars

\* C18: a summary started with the retrieved URLs of a message sets isSummarizing on that
\* message and changes nothing else; when the call completes, the message, if it is still in
\* the transcript, has isSummarizing false and a summary that is not empty (the returned
\* text or the fallback on success, a text starting with "Error: " on failure), its other
\* fields and all other messages being unchanged; if the transcript was replaced in between,
\* the completion changes no message.
C18_SummaryAttached ==
  [][/\ \A k \in 1..Len(chatMessages) :
          (/\ Len(summaryCalls') = Len(summaryCalls) + 1
           /\ Len(successfulUrls(chatMessages[k])) > 0
           /\ handleSummarizeUrls(chatMessages[k].id, successfulUrls(chatMessages[k])))
            => SummaryStarted(k)
     /\ \A i \in 1..Len(summaryCalls) :
          (summaryCalls' = RemoveAt(summaryCalls, i)) =>
            \A outcome \in SummaryOutcomes :
              SummarySettled(i, outcome) =>
                /\ Len(chatMessages') = Len(chatMessages)
                /\ \A k \in 1..Len(chatMessages) :
                     IF chatMessages[k].id = summaryCalls[i].messageId
                     THEN SummaryAttached(chatMessages[k], chatMessages'[k], outcome)
                     ELSE chatMessages'[k] = chatMessages[k]]_vars

\* a message whose summary failed, among other messages
C18_Witness ==
  \E k \in 1..Len(chatMessages) :
    /\ chatMessages[k].sender = MODEL
    /\ "summary" \in DOMAIN chatMessages[k]
    /\ startsWith(chatMessages[k].summary, S_ErrorPrefix)
    /\ chatMessages[k].isSummarizing = FALSE
    /\ chatMessages[k].text = T_answer
    /\ summaryCalls = <<>>

\* C19: when a summary call completes for a message that already carries the summary of
\* another call for the same id (the other call completed first), the message then carries
\* the result of the call that completes now, with isSummarizing false, and no other
\* message changes: the last completion wins.
C19_LastWriteWins ==
  [][\A i \in 1..Len(summaryCalls) :
       (summaryCalls' = RemoveAt(summaryCalls, i)) =>
         \A outcome \in SummaryOutcomes :
           SummarySettled(i, outcome) =>
             \A k \in 1..Len(chatMessages) :
               IF chatMessages[k].id = summaryCalls[i].messageId
               THEN "summary" \in DOMAIN chatMessages[k] =>
                      /\ chatMessages'[k].summary = summaryOf(getSummaryForUrlsSettled(outcome))
                      /\ chatMessages'[k].isSummarizing = FALSE
               ELSE chatMessages'[k] = chatMessages[k]]_vars

\* of two calls for one message the first has completed with an error and the second is
\* still awaiting the service
C19_Witness ==
  \E k \in 1..Len(chatMessages) :
    /\ "summary" \in DOMAIN chatMessages[k]
    /\ startsWith(chatMessages[k].summary, S_ErrorPrefix)
    /\ chatMessages[k].isSummarizing = FALSE
    /\ Len(summaryCalls) = 1
    /\ summaryCalls[1].messageId = chatMessages[k].id

(***************************************************************************)
(* Claims about the requests of the gateway, checked under SpecGW.         *)
(***************************************************************************)

\* C20: a request sent by generateContentWithContext, called directly or by
\* getSummaryForUrls, carries the URL context tool exactly when the URL list of the call is
\* not empty; a request sent by getInitialSuggestions carries no tool; every request carries
\* the four fixed safety settings.
C20_RequestConfig ==
  gatewayCall.stage = "awaiting" =>
    LET config == gatewayCall.request.config
    IN  /\ config.safetySettings = safetySettings
        /\ Len(config.safetySettings) = 4
        /\ \A s \in 1..4 : config.safetySettings[s].threshold = "BLOCK_MEDIUM_AND_ABOVE"
        /\ IF gatewayCall.op = "getInitialSuggestions"
           THEN "tools" \notin DOMAIN config
           ELSE IF Len(gatewayCall.urls) > 0
           THEN "tools" \in DOMAIN config /\ config.tools = <<"urlContext">>
           ELSE "tools" \notin DOMAIN config

\* getSummaryForUrls has sent a request with the tool
C20_Witness ==
  /\ gatewayCall.stage = "awaiting"
  /\ gatewayCall.op = "getSummaryForUrls"
  /\ Len(gatewayCall.urls) > 0
  /\ "tools" \in DOMAIN gatewayCall.request.config

(***************************************************************************)
(* Properties of the error texts of the gateway (SpecGW).                  *)
(***************************************************************************)

\* the ordered keyword sets and the text of each category
ErrorCategories ==
  << [keywords |-> {K_403, K_apikey}, text |-> S_AuthFailed],
     [keywords |-> {K_429, K_quota}, text |-> S_UsageLimit],
     [keywords |-> {K_503, K_serviceunavailable, K_overloaded}, text |-> S_Unavailable],
     [keywords |-> {K_network, K_fetchfailed, K_failedtofetch}, text |-> S_NetworkFailed],
     [keywords |-> {K_safety, K_blocked}, text |-> S_SafetyBlocked],
     [keywords |-> {K_candidate}, text |-> S_NoValidResponse] >>

\* the categories a message matches, whatever the case of its letters
MatchingCategories(message) ==
  {c \in 1..Len(ErrorCategories) :
     \E k \in ErrorCategories[c].keywords : includes(toLowerCase(message), k)}

\* the text of the first category that matches, the generic text when none does
CategoryText(err) ==
  IF err.isError /\ MatchingCategories(err.message) # {}
  THEN ErrorCategories[SetMin(MatchingCategories(err.message))].text
  ELSE S_UnexpectedService

\* C21: the error with which generateContentWithContext rejects when the service throws
\* carries the text of the first category, in the fixed order, of which a keyword occurs in
\* the thrown error's message whatever the case of its letters, and the generic text
\* "An unexpected error occurred while communicating with the AI service." when no keyword
\* occurs.
C21_Original ==
  [][\A err \in ServiceErrors \cup SummaryErrors \cup WordErrors :
       (/\ gatewayCall.stage = "awaiting"
        /\ gatewayCall.op = "generateContentWithContext"
        /\ gatewayCall' = gatewayRejected(gatewayCall, err))
         => gatewayCall'.outcome.error.message = CategoryText(err)]_vars

(***************************************************************************)
(* Properties of the suggestion list (SpecSuggestions).                    *)
(***************************************************************************)

\* the entries of the suggestions array of the JSON value of text (its fence removed), the
\* empty sequence when text is no JSON text or its value has no suggestions array
SuggestionsArray(text) ==
  LET parsed == IF text = <<>> THEN SyntaxError ELSE JSONparse(stripFence(trim(text)))
      named == IF parsed.ok /\ parsed.value.type = "object"
               THEN {m \in 1..Len(parsed.value.members) :
                       parsed.value.members[m].key = K_suggestions}
               ELSE {}
  IN  IF named # {} /\ parsed.value.members[SetMax(named)].value.type = "array"
      THEN parsed.value.members[SetMax(named)].value.items
      ELSE <<>>

\* list holds, in their order, the first strings of array, four at most and all when there
\* are fewer
FirstStrings(list, array) ==
  LET at == {k \in 1..Len(array) : array[k].type = "string"}
      nth(n) == CHOOSE k \in at : Cardinality({j \in at : j <= k}) = n
  IN  /\ Len(list) = (IF Cardinality(at) < 4 THEN Cardinality(at) ELSE 4)
      /\ \A n \in 1..Len(list) : list[n] = array[nth(n)].value

\* for each answer of the sample: the list is made of the first strings of its array
AnswerKept == [text \in SuggestionSamples |-> [list \in {suggestionsOf[t] : t \in SuggestionSamples} |->
                                               FirstStrings(list, SuggestionsArray(text))]]

\* C22: the suggestion list never holds more than 4 entries; when the service answers a
\* suggestion request, the list becomes the first strings, four at most and in their order,
\* of the suggestions array of the parsed answer, and the empty list when the answer does
\* not parse or has no suggestions array; the transcript is left as it is.
C22_SuggestionsKept ==
  /\ [](Len(initialQuerySuggestions) <= 4)
  /\ [][\A i \in 1..Len(suggestionCalls) :
          (suggestionCalls' = RemoveAt(suggestionCalls, i)) =>
            \A text \in SuggestionSamples :
              SuggestionsResolved(i, text) =>
                /\ initialQuerySuggestions' \in DOMAIN AnswerKept[text]
                /\ AnswerKept[text][initialQuerySuggestions']
                /\ chatMessages' = chatMessages]_vars

\* the list after an answer with five strings among seven entries
C22_Witness ==
  /\ Len(initialQuerySuggestions) = 4
  /\ initialQuerySuggestions = <<Q_hello, Q_suggested, Q_hello, Q_hello>>
  /\ suggestionCalls = <<>>

(***************************************************************************)
(* Failures of the background calls (Spec).                                *)
(***************************************************************************)

\* the step left isLoading and the length of the transcript as they were, and after it no
\* suggestion request is counted as running unless one is, and the guard of
\* handleSendMessage lets a query that is not blank pass unless a submission is running
NothingBlocked ==
  /\ isLoading' = isLoading
  /\ Len(chatMessages') = Len(chatMessages)
  /\ (suggestionCalls' = <<>>) => ~isFetchingSuggestions'
  /\ \A query \in AllQueries :
       (trim(query) # <<>> /\ ~isLoading' /\ suggestionCalls' = <<>>) => ~(sendRejected(query))'

\* C23: a rejected suggestion request and a rejected summary request leave isLoading and the
\* length of the transcript unchanged; once no suggestion request is outstanding
\* isFetchingSuggestions is false; and a submission of a non-blank query, online and with a
\* key, made while no submission and no suggestion request is outstanding is accepted: it
\* appends the user's message and the placeholder and sets isLoading.
C23_FailuresDoNotBlock ==
  [][/\ \A i \in 1..Len(suggestionCalls) :
          (suggestionCalls' = RemoveAt(suggestionCalls, i) /\ SuggestionsRejected(i))
            => NothingBlocked
     /\ \A i \in 1..Len(summaryCalls) :
          (summaryCalls' = RemoveAt(summaryCalls, i)) =>
            \A err \in SummaryErrors :
              SummarySettled(i, generateContentRejected(err)) => NothingBlocked
     /\ (now' # now /\ API_KEY /\ ~isLoading /\ suggestionCalls = <<>>) =>
          \A query \in AllQueries :
            (trim(query) # <<>> /\ handleSendMessage(query, TRUE))
              => /\ isLoading'
                 /\ Len(chatMessages') = Len(chatMessages) + 2
                 /\ chatMessages'[Len(chatMessages) + 1].text = query]_vars

\* a summary request has failed on a message of the transcript, no call is outstanding and
\* the guard of handleSendMessage lets a query pass
C23_Witness ==
  /\ \E k \in 1..Len(chatMessages) :
       /\ "summary" \in DOMAIN chatMessages[k]
       /\ startsWith(chatMessages[k].summary, S_ErrorPrefix)
  /\ summaryCalls = <<>> /\ suggestionCalls = <<>> /\ sendCalls = <<>>
  /\ ~isLoading
  /\ ~sendRejected(Q_hello)

(***************************************************************************)
(* Properties of the store operations (SpecFiles, SpecKB).                 *)
(***************************************************************************)

\* files is the list old followed by batch, cut after MAX_FILES files
CappedAppend(files, old, batch) ==
  /\ Len(files) = (IF Len(old) + Len(batch) > MAX_FILES THEN MAX_FILES ELSE Len(old) + Len(batch))
  /\ \A k \in 1..Len(files) :
       files[k] = (IF k <= Len(old) THEN old[k] ELSE batch[k - Len(old)])

\* C24: addFiles(batch) on the active group with file list F leaves the first MAX_FILES (50)
\* files of F followed by batch: the files of F stay at their positions, the new files
\* follow in their order, and only the last files beyond the capacity are dropped.
C24_AddFilesAppends ==
  [][/\ \A batch \in {BigBatch, OverflowBatch, DupBatch} :
          CappedAppend(filesForChat(handleAddFiles(urlGroups, batch), activeUrlGroupId),
                       currentFilesForChat, batch)
     /\ (urlGroups' # urlGroups) =>
          \A batch \in {BigBatch, OverflowBatch, DupBatch} :
            KBM_handleFileChange(batch) =>
              CappedAppend(filesForChat(urlGroups', activeUrlGroupId), currentFilesForChat,
                           uniqueFilesOf(currentFilesForChat, batch))]_vars

\* the list is full after an import that exceeded the capacity: its last file is the first
\* one of the overflowing batch and the second one was dropped
C24_Witness ==
  /\ Len(currentFilesForChat) = MAX_FILES
  /\ currentFilesForChat[1] = BigBatch[1]
  /\ currentFilesForChat[MAX_FILES] = OverflowBatch[1]
  /\ \A k \in 1..MAX_FILES : currentFilesForChat[k] # OverflowBatch[2]

\* groups has the groups of urlGroups in their order, and every group but the active one
\* as it is in urlGroups
OthersKept(groups) ==
  /\ Len(groups) = Len(urlGroups)
  /\ \A g \in 1..Len(urlGroups) :
       /\ groups[g].id = urlGroups[g].id
       /\ urlGroups[g].id # activeUrlGroupId =>
            /\ groups[g].urls = urlGroups[g].urls
            /\ groups[g].files = urlGroups[g].files

\* C25: addUrl, removeUrl, addFiles and removeFile leave the URL list and the file list of
\* every group but the active one, the active group id and the order of the groups as
\* they are; removeUrl of a URL that is not listed and removeFile of a name that is not
\* listed leave the lists of the active group as they are, too.
C25_OnlyActiveGroup ==
  [][/\ \A url \in KBAddInputs \cup KBRemoveInputs :
          /\ OthersKept(handleAddUrl(urlGroups, url))
          /\ OthersKept(handleRemoveUrl(urlGroups, url))
          /\ ~arrayIncludes(currentUrlsForChat, url) => handleRemoveUrl(urlGroups, url) = urlGroups
     /\ \A batch \in {BigBatch, OverflowBatch} : OthersKept(handleAddFiles(urlGroups, batch))
     /\ \A fileName \in KBRemoveFileInputs :
          /\ OthersKept(handleRemoveFile(urlGroups, fileName))
          /\ (\A k \in 1..Len(currentFilesForChat) : currentFilesForChat[k].name # fileName)
               => handleRemoveFile(urlGroups, fileName) = urlGroups
     /\ (urlGroups' # urlGroups) =>
          /\ activeUrlGroupId' = activeUrlGroupId
          /\ OthersKept(urlGroups')
     /\ (RemoveUrl(AbsentUrl) \/ RemoveFile(File(0, M_textPlain).name)) =>
          /\ urlGroups' = urlGroups
          /\ activeUrlGroupId' = activeUrlGroupId]_vars

\* both groups were edited, each while it was the active one, and differ
C25_Witness ==
  /\ activeUrlGroupId = INITIAL_URL_GROUPS[2].id
  /\ Len(urlGroups[1].files) = MAX_FILES
  /\ Len(urlGroups[1].urls) > Len(INITIAL_URL_GROUPS[1].urls)
  /\ urlGroups[2].files = OverflowBatch
  /\ Len(urlGroups[2].urls) > Len(INITIAL_URL_GROUPS[2].urls)

(***************************************************************************)
(* The loading flags (Spec).                                               *)
(***************************************************************************)

C27_BackToIdle == (isLoading \/ sendCalls # <<>>) ~> (~isLoading /\ sendCalls = <<>>)

\* a submission was accepted and has returned; meanwhile the other group was made the
\* active one, which reset the transcript
C27_Witness ==
  /\ now > 0
  /\ ~isLoading
  /\ sendCalls = <<>>
  /\ activeUrlGroupId # INITIAL_URL_GROUPS[1].id
  /\ Len(chatMessages) = 1

(***************************************************************************)
(* Completions that arrive after a reset of the transcript (Spec).         *)
(***************************************************************************)

\* no message of the transcript has the id
Gone(id) == \A k \in 1..Len(chatMessages) : chatMessages[k].id # id

\* C28: when a submission or a summary call completes and no message of the transcript has
\* the id of its target, the transcript stays as it is; and a step changes the length of
\* the transcript only as a submission, which appends one message (a notice) or two (the
\* user's message and the placeholder), or as a reset to the one welcome message.
C28_LateCompletion ==
  [][/\ \A i \in 1..Len(sendCalls) :
          (sendCalls' = RemoveAt(sendCalls, i) /\ Gone(sendCalls[i].placeholder.id))
            => chatMessages' = chatMessages
     /\ \A i \in 1..Len(summaryCalls) :
          (summaryCalls' = RemoveAt(summaryCalls, i) /\ Gone(summaryCalls[i].messageId))
            => chatMessages' = chatMessages
     /\ (Len(chatMessages') # Len(chatMessages)) =>
          \/ /\ Len(chatMessages') \in {Len(chatMessages) + 1, Len(chatMessages) + 2}
             /\ SubSeq(chatMessages', 1, Len(chatMessages)) = chatMessages
             /\ \E onLine \in BOOLEAN :
                  \E query \in AllQueries \cup {initialQuerySuggestions[k] :
                                                  k \in 1..Len(initialQuerySuggestions)} :
                    handleSendMessage(query, onLine)
          \/ chatMessages' = welcomeTranscript(urlGroups', activeUrlGroupId')]_vars

\* a summary call is in flight for a message that a reset has removed from the transcript
C28_Witness ==
  /\ summaryCalls # <<>>
  /\ Gone(summaryCalls[1].messageId)
  /\ chatMessages = welcomeTranscript(urlGroups, activeUrlGroupId)
  /\ sendCalls = <<>>
  /\ now > 0

(***************************************************************************)
(* The origin of the suggestion list (Spec).                               *)
(***************************************************************************)

\* C29: a suggestion list that is not empty stems from the request issued for the URL list
\* the active group has now: when an answer fills the list, the request it answers was
\* issued for the current URL list of the active group; and the list is empty while the
\* active group has no URL.
C29_Original ==
  [][/\ \A i \in 1..Len(suggestionCalls) :
          (suggestionCalls' = RemoveAt(suggestionCalls, i) /\ initialQuerySuggestions' # <<>>)
            => suggestionCalls[i].urls = currentUrlsForChat
     /\ (Len(urlsForChat(urlGroups', activeUrlGroupId')) = 0) => initialQuerySuggestions' = <<>>]_vars
====
